---- MODULE Spec2Model ----
(***************************************************************************)
(* Duplicate-file detector of chromadblocal-mcp-server                     *)
(* (duplicate-detector.js): the three hashing strategies, the two-phase    *)
(* grouping engine findDuplicates and compareFiles; and its EXIF extractor *)
(* (byte reader, parseIFD, findExifInJpeg, extractExif); the query router  *)
(* of the MCP server (index.js: routeQuery, getClient), batchProcessFiles  *)
(* (setup-collections.js) and the folder watcher (createDebouncedProcessor,*)
(* startWatcher, stopWatcher, getWatcherStatus).                           *)
(*                                                                         *)
(* Conventions                                                             *)
(*  - A buffer is a sequence of byte values; JS offsets are 0-based, so    *)
(*    buffer[i] of the source is buf[i + 1] here.                          *)
(*  - MD5 is modelled as an ideal, collision-free digest: the hex string   *)
(*    of the bytes fed to hash.update(), in order.  Two digests are equal  *)
(*    exactly when the same byte stream was hashed.  The fixed width of a  *)
(*    real digest (and so .slice(0, 16)) has no counterpart in it.         *)
(*  - A path is the index of the file in the list scanDirectory returned   *)
(*    (the paths of one scan are pairwise different).                      *)
(*  - The file system does not change while findDuplicates runs.  fs holds *)
(*    what the run has observed of it so far: an attribute of a file is    *)
(*    chosen when the code first observes it and is kept from then on.     *)
(*  - A JS value of the EXIF extractor is a record with a field t (its    *)
(*    type); a number is the quotient num / den, and a read outside a      *)
(*    buffer is undefined, which the bit operators take as 0.              *)
(*  - An await of the source ends an action: what runs between two awaits  *)
(*    is one step, and other calls and callbacks may run at each await.    *)
(***************************************************************************)
EXTENDS Integers, Sequences, FiniteSets, TLC

\* ------------------------------------------------------------------ bounds
MaxFiles == 4      \* files returned by scanDirectory

\* Byte values file contents are drawn from: the two bytes of the JPEG
\* Start-Of-Scan marker (0xFF 0xDA).
ByteValues == {218, 255}

\* What one findDuplicates run can observe of a scanned file: its size in
\* bytes, its modification time (ms), the extension of its path (an image
\* type and a non-image type) and its content (a run of 0xFF whose last
\* byte is 0xFF or 0xDA: two different contents of every size).
FileSizes == {1, 2}
Mtimes == {1, 2}
ScanExts == {".png", ".txt"}
ContentsOfSize(size) ==
    {b \in [1..size -> ByteValues] : \A k \in 1..(size - 1) : b[k] = 255}

HashMethods == {"full", "partial", "perceptual"}

\* ------------------------------------------------------- generic helpers
Min(a, b) == IF a < b THEN a ELSE b
Max(a, b) == IF a > b THEN a ELSE b

RECURSIVE SeqSum(_)
SeqSum(s) == IF s = <<>> THEN 0 ELSE Head(s) + SeqSum(Tail(s))

\* All byte sequences of length exactly len over ByteValues.
BuffersOfLen(len) == [1..len -> ByteValues]

\* Buffer.prototype.slice(start, end): negative indices count from the end,
\* both are clamped to [0, length]; an empty range gives an empty buffer.
Slice(buf, start, end) ==
    LET len == Len(buf)
        lo  == IF start < 0 THEN Max(len + start, 0) ELSE Min(start, len)
        hi  == IF end < 0 THEN Max(len + end, 0) ELSE Min(end, len)
    IN IF lo < hi THEN SubSeq(buf, lo + 1, hi) ELSE <<>>

\* Buffer.from(n.toString()): the ASCII codes of the decimal digits of n.
RECURSIVE DecimalBytes(_)
DecimalBytes(n) ==
    IF n < 10 THEN <<48 + n>>
    ELSE DecimalBytes(n \div 10) \o <<48 + (n % 10)>>

HexDigit == <<"0", "1", "2", "3", "4", "5", "6", "7",
              "8", "9", "a", "b", "c", "d", "e", "f">>

HexByte(b) == HexDigit[(b \div 16) + 1] \o HexDigit[(b % 16) + 1]

\* createHash('md5').update(...)...digest('hex') under the ideal-digest
\* convention: the hex rendering of the hashed byte stream.
RECURSIVE MD5Hex(_)
MD5Hex(stream) ==
    IF stream = <<>> THEN "" ELSE HexByte(Head(stream)) \o MD5Hex(Tail(stream))

\* Result of an async function: a value, or a rejection.
Returned(v) == [threw |-> FALSE, value |-> v]
Threw == [threw |-> TRUE, value |-> ""]

\* --------------------------------------------------------- file categories
\* FILE_TYPES of batch-processor.js, in declaration order.
FileTypeOrder == <<"images", "cad", "documents", "data", "code">>

FILE_TYPES ==
    [images |-> {".jpg", ".jpeg", ".png", ".gif", ".bmp", ".webp", ".heic",
                 ".heif", ".tiff", ".tif", ".raw", ".cr2", ".nef", ".arw"},
     cad |-> {".dxf", ".dwg", ".step", ".stp", ".stl", ".obj", ".iges",
              ".igs", ".fbx", ".3ds", ".blend", ".skp", ".fcstd", ".scad"},
     documents |-> {".pdf", ".txt", ".md", ".markdown", ".rst", ".doc",
                    ".docx", ".rtf", ".odt"},
     data |-> {".json", ".yaml", ".yml", ".xml", ".csv", ".tsv", ".toml",
               ".ini", ".conf", ".config"},
     code |-> {".js", ".ts", ".jsx", ".tsx", ".py", ".rb", ".go", ".rs",
               ".java", ".kt", ".swift", ".c", ".cpp", ".h", ".hpp", ".cs",
               ".php", ".vue", ".svelte", ".html", ".css", ".scss", ".sass",
               ".less", ".sql", ".sh", ".bash", ".zsh", ".ps1", ".bat"}]

\* getFileCategory(filePath).type: the first type whose extension list
\* holds the path's extension, else 'unknown'.
getFileCategory(ext) ==
    LET hits == {k \in 1..Len(FileTypeOrder) : ext \in FILE_TYPES[FileTypeOrder[k]]}
    IN IF hits = {} THEN "unknown"
       ELSE FileTypeOrder[CHOOSE k \in hits : \A j \in hits : k <= j]

\* ------------------------------------------------------ hashing strategies
DefaultChunkSize == 65536     \* chunkSize = 65536
MaxSampleSize == 1024         \* Math.min(1024, buffer.length - scanStart)
MaxIdatSample == 256          \* Math.min(length, 256)

\* Fault variant of FileHashOf: only the first byte reaches the digest.
FileHashOf_FirstByteOnly(buffer) == MD5Hex(Slice(buffer, 0, 1))

\* calculateFileHash once readFile has resolved: the digest of the whole file.
FileHashOf(buffer) == MD5Hex(buffer)

\* calculateFileHash(filePath): readable is the outcome of its readFile.
calculateFileHash(buffer, readable) ==
    IF readable THEN Returned(FileHashOf(buffer)) ELSE Threw

\* Fault variant of PartialHashOf: the middle chunk is never hashed.
PartialHashOf_NoMiddleChunk(buffer, chunkSize) ==
    LET len   == Len(buffer)
        first == Slice(buffer, 0, Min(chunkSize, len))
        last  == IF len > chunkSize * 2
                 THEN Slice(buffer, -chunkSize, len) ELSE <<>>
    IN MD5Hex(DecimalBytes(len) \o first \o last)

\* calculatePartialHash once readFile has resolved: the digest of the
\* decimal length, the first chunk, the last chunk when the file is longer
\* than two chunks and the middle chunk when it is longer than three.
PartialHashOf(buffer, chunkSize) ==
    LET len      == Len(buffer)
        first    == Slice(buffer, 0, Min(chunkSize, len))
        last     == IF len > chunkSize * 2
                    THEN Slice(buffer, -chunkSize, len) ELSE <<>>
        midStart == (len \div 2) - (chunkSize \div 2)
        middle   == IF len > chunkSize * 3
                    THEN Slice(buffer, midStart, midStart + chunkSize) ELSE <<>>
    IN MD5Hex(DecimalBytes(len) \o first \o last \o middle)

\* calculatePartialHash(filePath, chunkSize).
calculatePartialHash(buffer, chunkSize, readable) ==
    IF readable THEN Returned(PartialHashOf(buffer, chunkSize)) ELSE Threw

\* The JPEG branch's search: the offset just past the first FF DA, else -1.
ScanStart(buffer) ==
    LET hits == {i \in 0..(Len(buffer) - 2) :
                    buffer[i + 1] = 255 /\ buffer[i + 2] = 218}
    IN IF hits = {} THEN -1
       ELSE (CHOOSE i \in hits : \A j \in hits : i <= j) + 2

\* The bytes the JPEG branch feeds to the digest: every step-th byte from
\* scanStart, at most sampleSize of them.  With sampleSize = 0 the step is
\* NaN and the loop body never runs.
RECURSIVE JpegSamplesFrom(_, _, _, _)
JpegSamplesFrom(buffer, i, limit, step) ==
    IF i < Len(buffer) /\ i < limit
    THEN <<buffer[i + 1]>> \o JpegSamplesFrom(buffer, i + step, limit, step)
    ELSE <<>>

JpegSamples(buffer, scanStart) ==
    LET sampleSize == Min(MaxSampleSize, Len(buffer) - scanStart)
        step == IF sampleSize = 0 THEN 1
                ELSE Max(1, (Len(buffer) - scanStart) \div sampleSize)
    IN IF sampleSize = 0 THEN <<>>
       ELSE JpegSamplesFrom(buffer, scanStart, scanStart + sampleSize * step, step)

\* buffer.readUInt32BE(i).
ReadUInt32BE(buffer, i) ==
    buffer[i + 1] * 16777216 + buffer[i + 2] * 65536 + buffer[i + 3] * 256 + buffer[i + 4]

IDAT == <<73, 68, 65, 84>>

\* The PNG branch's chunk walk from offset i: the first 256 bytes of every
\* IDAT chunk, concatenated.
RECURSIVE PngSamplesFrom(_, _)
PngSamplesFrom(buffer, i) ==
    IF i < Len(buffer) - 12
    THEN LET length == ReadUInt32BE(buffer, i)
             type   == Slice(buffer, i + 4, i + 8)
             chunk  == IF type = IDAT
                       THEN Slice(buffer, i + 8, i + 8 + Min(length, MaxIdatSample))
                       ELSE <<>>
         IN chunk \o PngSamplesFrom(buffer, i + 12 + length)
    ELSE <<>>

\* The strategy tags of calculateImagePerceptualHash.
JpegTag == "pjpg_"
\* Fault variant of PngTag: the PNG branch reuses the JPEG tag.
PngTag_AsJpeg == "pjpg_"
PngTag  == "ppng_"
GenericTag == "pgen_"
ErrorTag == "perr_"

\* The catch block: 'perr_' + await calculatePartialHash(filePath).
PerceptualFallback(buffer, readable) ==
    LET p == calculatePartialHash(buffer, DefaultChunkSize, readable)
    IN IF p.threw THEN Threw ELSE Returned(ErrorTag \o p.value)

\* calculateImagePerceptualHash(filePath).  reads[k] is the outcome of the
\* k-th readFile the call makes: the one of the try block, the one of the
\* pgen_ fallback's calculatePartialHash, the one of the catch block's.
calculateImagePerceptualHash(ext, buffer, reads) ==
    IF ~reads[1] THEN PerceptualFallback(buffer, reads[2])
    ELSE IF ext \in {".jpg", ".jpeg"} /\ ScanStart(buffer) > 0
    THEN Returned(JpegTag \o MD5Hex(JpegSamples(buffer, ScanStart(buffer))))
    ELSE IF ext = ".png"
    THEN Returned(PngTag \o MD5Hex(PngSamplesFrom(buffer, 8)))
    ELSE LET p == calculatePartialHash(buffer, DefaultChunkSize, reads[2])
         IN IF p.threw THEN PerceptualFallback(buffer, reads[3])
            ELSE Returned(GenericTag \o p.value)

\* The switch of findDuplicates' phase 2 for one file.  The file system is
\* static during the run, so every readFile of the file has the same outcome.
HashForMethod(hashMethod, ext, buffer, readable) ==
    IF hashMethod = "full" THEN calculateFileHash(buffer, readable)
    ELSE IF hashMethod = "perceptual"
    THEN IF getFileCategory(ext) = "images"
         THEN calculateImagePerceptualHash(ext, buffer, <<readable, readable, readable>>)
         ELSE calculatePartialHash(buffer, DefaultChunkSize, readable)
    ELSE calculatePartialHash(buffer, DefaultChunkSize, readable)

\* ------------------------------------------------------------- compareFiles
\* A file given to compareFiles: whether stat resolves, the extension of the
\* path, the contents and whether readFile resolves.  stats.size is the
\* length of the contents.
CompareFile(statOk, ext, buffer, readable) ==
    [statOk |-> statOk, ext |-> ext, buffer |-> buffer, readable |-> readable]

\* The result object of compareFiles, and its rejection.
Comparison(sameSize, partialMatch, exactMatch, perceptualMatch) ==
    [threw |-> FALSE, sameSize |-> sameSize, partialMatch |-> partialMatch,
     exactMatch |-> exactMatch, perceptualMatch |-> perceptualMatch]

ComparisonThrew ==
    [threw |-> TRUE, sameSize |-> FALSE, partialMatch |-> FALSE,
     exactMatch |-> FALSE, perceptualMatch |-> FALSE]

\* Fault variant of ExactMatchOf: a partial match is taken for an exact one.
ExactMatchOf_PartialOnly(full1, full2) == TRUE

\* result.exactMatch = full1 === full2
ExactMatchOf(full1, full2) == full1 = full2

\* compareFiles(file1, file2).  chunk is the chunk size calculatePartialHash
\* works with (its default, as compareFiles passes none).
compareFiles(file1, file2, chunk) ==
    IF ~file1.statOk \/ ~file2.statOk THEN ComparisonThrew
    ELSE IF Len(file1.buffer) # Len(file2.buffer)
    THEN Comparison(FALSE, FALSE, FALSE, FALSE)
    ELSE
    LET partial1 == calculatePartialHash(file1.buffer, chunk, file1.readable)
        partial2 == calculatePartialHash(file2.buffer, chunk, file2.readable)
        partialMatch == partial1.value = partial2.value
        full1 == calculateFileHash(file1.buffer, file1.readable)
        full2 == calculateFileHash(file2.buffer, file2.readable)
        exactMatch == partialMatch /\ ExactMatchOf(full1.value, full2.value)
        images == getFileCategory(file1.ext) = "images"
                  /\ getFileCategory(file2.ext) = "images"
        phash1 == calculateImagePerceptualHash(file1.ext, file1.buffer,
                      <<file1.readable, file1.readable, file1.readable>>)
        phash2 == calculateImagePerceptualHash(file2.ext, file2.buffer,
                      <<file2.readable, file2.readable, file2.readable>>)
    IN IF partial1.threw \/ partial2.threw THEN ComparisonThrew
       ELSE IF partialMatch /\ (full1.threw \/ full2.threw) THEN ComparisonThrew
       ELSE IF images /\ (phash1.threw \/ phash2.threw) THEN ComparisonThrew
       ELSE Comparison(TRUE, partialMatch, exactMatch,
                       images /\ phash1.value = phash2.value)

\* ---------------------------------------------------- EXIF: the byte reader
\* JS values of the EXIF extractor.  A number is kept as the quotient of two
\* 32-bit integers it was computed from (den = 1 for an integer, den = 0 for
\* what a division by zero gives, NaN or an infinity); a string is kept as
\* the sequence of its char codes.
Undefined == [t |-> "undefined"]
Null == [t |-> "null"]
Number(n) == [t |-> "number", num |-> n, den |-> 1]
Zero == Number(0)
String(chars) == [t |-> "string", chars |-> chars]

\* numerator / denominator
Quotient(numerator, denominator) ==
    IF denominator = 0 THEN [t |-> "number", num |-> numerator, den |-> 0]
    ELSE IF numerator = 0 THEN Zero
    ELSE IF denominator = 1 THEN Number(numerator)
    ELSE [t |-> "number", num |-> numerator, den |-> denominator]

\* buffer[offset] as an operand of | and <<: the byte, or 0 for the
\* undefined that an index outside the buffer gives.
ByteOrZero(buffer, offset) ==
    IF offset >= 0 /\ offset < Len(buffer) THEN buffer[offset + 1] ELSE 0

\* Fault variant of Int32Of: the sign bit is dropped.
Int32Of_NoSignBit(b3, b2, b1, b0) ==
    (b3 % 128) * 16777216 + b2 * 65536 + b1 * 256 + b0

\* ToInt32 of b0 | (b1 << 8) | (b2 << 16) | (b3 << 24): the operands of | are
\* 32-bit signed integers, so b3 >= 0x80 sets the sign bit.
Int32Of(b3, b2, b1, b0) ==
    (IF b3 >= 128 THEN b3 - 256 ELSE b3) * 16777216 + b2 * 65536 + b1 * 256 + b0

\* String.prototype.trim() removes these char codes (of those below 256).
WhiteSpace == {9, 10, 11, 12, 13, 32, 160}

RECURSIVE TrimStart(_)
TrimStart(chars) ==
    IF chars # <<>> /\ Head(chars) \in WhiteSpace THEN TrimStart(Tail(chars))
    ELSE chars

RECURSIVE TrimEnd(_)
TrimEnd(chars) ==
    IF chars # <<>> /\ chars[Len(chars)] \in WhiteSpace
    THEN TrimEnd(SubSeq(chars, 1, Len(chars) - 1))
    ELSE chars

\* The loop of readString from index i: stops at a 0 byte; an index outside
\* the buffer gives undefined, which String.fromCharCode turns into the
\* char of code 0.
RECURSIVE ReadChars(_, _, _, _)
ReadChars(buffer, offset, length, i) ==
    IF i >= length THEN <<>>
    ELSE IF offset + i >= 0 /\ offset + i < Len(buffer)
    THEN IF buffer[offset + i + 1] = 0 THEN <<>>
         ELSE <<buffer[offset + i + 1]>> \o ReadChars(buffer, offset, length, i + 1)
    ELSE <<0>> \o ReadChars(buffer, offset, length, i + 1)

readString(buffer, offset, length) ==
    String(TrimEnd(TrimStart(ReadChars(buffer, offset, length, 0))))

readUShort(buffer, offset, littleEndian) ==
    IF littleEndian
    THEN ByteOrZero(buffer, offset) + ByteOrZero(buffer, offset + 1) * 256
    ELSE ByteOrZero(buffer, offset) * 256 + ByteOrZero(buffer, offset + 1)

readULong(buffer, offset, littleEndian) ==
    IF littleEndian
    THEN Int32Of(ByteOrZero(buffer, offset + 3), ByteOrZero(buffer, offset + 2),
                 ByteOrZero(buffer, offset + 1), ByteOrZero(buffer, offset))
    ELSE Int32Of(ByteOrZero(buffer, offset), ByteOrZero(buffer, offset + 1),
                 ByteOrZero(buffer, offset + 2), ByteOrZero(buffer, offset + 3))

\* Fault variant of RationalOf: the division is made whatever the denominator.
RationalOf_Unguarded(numerator, denominator) ==
    [t |-> "number", num |-> numerator, den |-> denominator]

\* denominator ? numerator / denominator : 0
RationalOf(numerator, denominator) ==
    IF denominator # 0 THEN Quotient(numerator, denominator) ELSE Zero

readRational(buffer, offset, littleEndian) ==
    RationalOf(readULong(buffer, offset, littleEndian),
               readULong(buffer, offset + 4, littleEndian))

\* if (value > 0x7FFFFFFF) value -= 0x100000000
ToSigned(value) ==
    IF value > 2147483647 THEN ((value - 2147483647) - 2147483647) - 2 ELSE value

readSRational(buffer, offset, littleEndian) ==
    RationalOf(ToSigned(readULong(buffer, offset, littleEndian)),
               ToSigned(readULong(buffer, offset + 4, littleEndian)))

\* ------------------------------------------------------- EXIF: tag tables
\* EXIF_TAGS: tag id -> name.
EXIF_TAGS ==
    (271 :> "make") @@ (272 :> "model") @@ (274 :> "orientation") @@
    (282 :> "xResolution") @@ (283 :> "yResolution") @@
    (296 :> "resolutionUnit") @@ (305 :> "software") @@ (306 :> "dateTime") @@
    (315 :> "artist") @@ (33432 :> "copyright") @@
    (33434 :> "exposureTime") @@ (33437 :> "fNumber") @@
    (34850 :> "exposureProgram") @@ (34855 :> "isoSpeedRatings") @@
    (36864 :> "exifVersion") @@ (36867 :> "dateTimeOriginal") @@
    (36868 :> "dateTimeDigitized") @@ (37377 :> "shutterSpeedValue") @@
    (37378 :> "apertureValue") @@ (37379 :> "brightnessValue") @@
    (37380 :> "exposureBiasValue") @@ (37381 :> "maxApertureValue") @@
    (37383 :> "meteringMode") @@ (37384 :> "lightSource") @@ (37385 :> "flash") @@
    (37386 :> "focalLength") @@ (40961 :> "colorSpace") @@
    (40962 :> "pixelXDimension") @@ (40963 :> "pixelYDimension") @@
    (41486 :> "focalPlaneXResolution") @@ (41487 :> "focalPlaneYResolution") @@
    (41488 :> "focalPlaneResolutionUnit") @@ (41495 :> "sensingMethod") @@
    (41728 :> "fileSource") @@ (41729 :> "sceneType") @@
    (41985 :> "customRendered") @@ (41986 :> "exposureMode") @@
    (41987 :> "whiteBalance") @@ (41988 :> "digitalZoomRatio") @@
    (41989 :> "focalLengthIn35mmFilm") @@ (41990 :> "sceneCaptureType") @@
    (41992 :> "contrast") @@ (41993 :> "saturation") @@ (41994 :> "sharpness") @@
    (42032 :> "cameraOwnerName") @@ (42033 :> "bodySerialNumber") @@
    (42034 :> "lensSpecification") @@ (42035 :> "lensMake") @@
    (42036 :> "lensModel") @@ (42037 :> "lensSerialNumber") @@
    (0 :> "gpsVersionID") @@ (1 :> "gpsLatitudeRef") @@ (2 :> "gpsLatitude") @@
    (3 :> "gpsLongitudeRef") @@ (4 :> "gpsLongitude") @@
    (5 :> "gpsAltitudeRef") @@ (6 :> "gpsAltitude") @@ (7 :> "gpsTimeStamp") @@
    (29 :> "gpsDateStamp")

\* ORIENTATIONS: orientation value -> label (without the degree signs).
ORIENTATIONS ==
    (1 :> "Normal") @@ (2 :> "Flipped horizontal") @@ (3 :> "Rotated 180") @@
    (4 :> "Flipped vertical") @@ (5 :> "Rotated 90 CCW, flipped") @@
    (6 :> "Rotated 90 CW") @@ (7 :> "Rotated 90 CW, flipped") @@
    (8 :> "Rotated 90 CCW")

\* The keys of FLASH_VALUES; the label of key k is kept as the pair
\* <<"flash", k>>.
FLASH_KEYS ==
    {0, 1, 5, 7, 8, 9, 13, 15, 16, 20, 24, 25, 29, 31, 32, 48, 65, 69, 71, 73,
     77, 79, 88, 89, 93, 95}

\* n.toString(16)
RECURSIVE HexOf(_)
HexOf(n) ==
    IF n < 16 THEN HexDigit[n + 1] ELSE HexOf(n \div 16) \o HexDigit[(n % 16) + 1]

\* EXIF_TAGS[tag] || `tag_${tag.toString(16)}`
TagName(tag) ==
    IF tag \in DOMAIN EXIF_TAGS THEN EXIF_TAGS[tag] ELSE "tag_" \o HexOf(tag)

\* ----------------------------------------------------------- EXIF: parseIFD
\* typeSizes[type] || 1
TypeSize(type) ==
    CASE type \in {1, 2, 7} -> 1
      [] type = 3 -> 2
      [] type \in {4, 9} -> 4
      [] type \in {5, 10} -> 8
      [] OTHER -> 1

\* valueSize > 4, for valueSize = typeSize * count: as both are integers and
\* typeSize is 1, 2, 4 or 8, the product exceeds 4 exactly when count
\* exceeds 4 / typeSize rounded down.
ValueIsPointer(type, count) == count > 4 \div TypeSize(type)

Array(items) == [t |-> "array", items |-> items]
BufferValue(bytes) == [t |-> "buffer", bytes |-> bytes]

\* The rationals pushed by the loop of case 5, from index j on.
RECURSIVE Rationals(_, _, _, _, _)
Rationals(buffer, dataOffset, littleEndian, count, j) ==
    IF j >= count THEN <<>>
    ELSE <<readRational(buffer, dataOffset + j * 8, littleEndian)>>
         \o Rationals(buffer, dataOffset, littleEndian, count, j + 1)

\* The switch of parseIFD: the value of an entry of the given type and
\* count whose bytes start at dataOffset.  No read throws: an index outside
\* the buffer gives undefined.
EntryValue(buffer, dataOffset, type, count, littleEndian) ==
    CASE type = 1 ->
            IF dataOffset >= 0 /\ dataOffset < Len(buffer)
            THEN Number(buffer[dataOffset + 1]) ELSE Undefined
      [] type = 2 -> readString(buffer, dataOffset, count)
      [] type = 3 -> Number(readUShort(buffer, dataOffset, littleEndian))
      [] type = 4 -> Number(readULong(buffer, dataOffset, littleEndian))
      [] type = 5 ->
            IF count = 1 THEN readRational(buffer, dataOffset, littleEndian)
            ELSE Array(Rationals(buffer, dataOffset, littleEndian, count, 0))
      [] type = 7 -> BufferValue(Slice(buffer, dataOffset, dataOffset + count))
      [] type = 9 -> Number(ToSigned(readULong(buffer, dataOffset, littleEndian)))
      [] type = 10 -> readSRational(buffer, dataOffset, littleEndian)
      [] OTHER -> Null

\* tags[tagName] = value
Put(tags, tagName, value) ==
    [k \in (DOMAIN tags) \cup {tagName} |-> IF k = tagName THEN value ELSE tags[k]]

\* The entry at index i of the directory at ifdOffset: its fields and where
\* its value bytes start.
Entry(buffer, tiffOffset, ifdOffset, littleEndian, i) ==
    LET entryOffset == tiffOffset + ifdOffset + 2 + (i * 12)
        type  == readUShort(buffer, entryOffset + 2, littleEndian)
        count == readULong(buffer, entryOffset + 4, littleEndian)
        valueOffset == entryOffset + 8
    IN [tag |-> readUShort(buffer, entryOffset, littleEndian),
        type |-> type,
        count |-> count,
        dataOffset |-> IF ValueIsPointer(type, count)
                       THEN tiffOffset + readULong(buffer, valueOffset, littleEndian)
                       ELSE valueOffset]

\* The body of parseIFD's loop for the entries from index i on.  An entry
\* that starts at or beyond the end of the buffer reads as type 0, which
\* gives null, and so do all the entries after it: they leave tags as it is.
RECURSIVE ParseEntries(_, _, _, _, _, _, _)
ParseEntries(buffer, tiffOffset, ifdOffset, littleEndian, numEntries, i, tags) ==
    IF i >= numEntries \/ tiffOffset + ifdOffset + 2 + (i * 12) >= Len(buffer) THEN tags
    ELSE LET e == Entry(buffer, tiffOffset, ifdOffset, littleEndian, i)
             value == EntryValue(buffer, e.dataOffset, e.type, e.count, littleEndian)
         IN ParseEntries(buffer, tiffOffset, ifdOffset, littleEndian, numEntries, i + 1,
                IF value # Null /\ value # Undefined
                THEN Put(tags, TagName(e.tag), value) ELSE tags)

\* {}
NoTags == [k \in {} |-> Undefined]

\* parseIFD(buffer, tiffOffset, ifdOffset, littleEndian, isGPS): isGPS is
\* never read.
parseIFD(buffer, tiffOffset, ifdOffset, littleEndian) ==
    ParseEntries(buffer, tiffOffset, ifdOffset, littleEndian,
                 readUShort(buffer, tiffOffset + ifdOffset, littleEndian), 0, NoTags)

\* ------------------------------------------------------ EXIF: findExifInJpeg
\* "Exif\0\0"
ExifSignature == <<69, 120, 105, 102, 0, 0>>

\* buffer[offset + 4] === 0x45 && ... && buffer[offset + 9] === 0x00
HasExifSignature(buffer, offset) ==
    \A k \in 1..6 :
        /\ offset + 3 + k < Len(buffer)
        /\ buffer[offset + 4 + k] = ExifSignature[k]

\* (buffer[offset + 2] << 8) | buffer[offset + 3]
DeclaredLength(buffer, offset) ==
    ByteOrZero(buffer, offset + 2) * 256 + ByteOrZero(buffer, offset + 3)

\* Fault variant of ScanStep: every APP1 segment is taken for the EXIF one,
\* its signature unchecked.
ScanStep_NoSignatureCheck(buffer, offset) ==
    IF buffer[offset + 1] # 255 THEN [op |-> "continue", offset |-> offset + 1]
    ELSE LET marker == buffer[offset + 2]
         IN IF marker = 225
            THEN [op |-> "return", offset |-> offset + 10]
            ELSE IF marker >= 224 /\ marker <= 239
            THEN [op |-> "continue",
                  offset |-> offset + 2 + DeclaredLength(buffer, offset)]
            ELSE IF marker = 216 \/ marker = 217
            THEN [op |-> "continue", offset |-> offset + 2]
            ELSE IF marker = 218 THEN [op |-> "break", offset |-> offset]
            ELSE [op |-> "continue", offset |-> offset + 1]

\* Fault variant of ScanStep: a Start-Of-Scan marker is stepped over like
\* SOI and EOI, and the scan goes on behind it.
ScanStep_SkipsStartOfScan(buffer, offset) ==
    IF buffer[offset + 1] # 255 THEN [op |-> "continue", offset |-> offset + 1]
    ELSE LET marker == buffer[offset + 2]
         IN IF marker = 225 /\ HasExifSignature(buffer, offset)
            THEN [op |-> "return", offset |-> offset + 10]
            ELSE IF marker >= 224 /\ marker <= 239
            THEN [op |-> "continue",
                  offset |-> offset + 2 + DeclaredLength(buffer, offset)]
            ELSE IF marker = 216 \/ marker = 217 \/ marker = 218
            THEN [op |-> "continue", offset |-> offset + 2]
            ELSE [op |-> "continue", offset |-> offset + 1]

\* Fault variant of ScanStep: an APPn segment is stepped over by its
\* declared length alone, without the two bytes of its marker.
ScanStep_LengthOnly(buffer, offset) ==
    IF buffer[offset + 1] # 255 THEN [op |-> "continue", offset |-> offset + 1]
    ELSE LET marker == buffer[offset + 2]
         IN IF marker = 225 /\ HasExifSignature(buffer, offset)
            THEN [op |-> "return", offset |-> offset + 10]
            ELSE IF marker >= 224 /\ marker <= 239
            THEN [op |-> "continue",
                  offset |-> offset + DeclaredLength(buffer, offset)]
            ELSE IF marker = 216 \/ marker = 217
            THEN [op |-> "continue", offset |-> offset + 2]
            ELSE IF marker = 218 THEN [op |-> "break", offset |-> offset]
            ELSE [op |-> "continue", offset |-> offset + 1]

\* One iteration of findExifInJpeg's loop, entered with offset <
\* buffer.length - 4: return an origin, break, or go on at a new offset.
ScanStep(buffer, offset) ==
    IF buffer[offset + 1] # 255 THEN [op |-> "continue", offset |-> offset + 1]
    ELSE LET marker == buffer[offset + 2]
         IN IF marker = 225 /\ HasExifSignature(buffer, offset)
            THEN [op |-> "return", offset |-> offset + 10]
            ELSE IF marker >= 224 /\ marker <= 239
            THEN [op |-> "continue",
                  offset |-> offset + 2 + DeclaredLength(buffer, offset)]
            ELSE IF marker = 216 \/ marker = 217
            THEN [op |-> "continue", offset |-> offset + 2]
            ELSE IF marker = 218 THEN [op |-> "break", offset |-> offset]
            ELSE [op |-> "continue", offset |-> offset + 1]

\* The loop of findExifInJpeg from offset on: the origin, or -1.
RECURSIVE FindExifFrom(_, _)
FindExifFrom(buffer, offset) ==
    IF offset < Len(buffer) - 4
    THEN LET step == ScanStep(buffer, offset)
         IN CASE step.op = "return" -> step.offset
              [] step.op = "break" -> -1
              [] OTHER -> FindExifFrom(buffer, step.offset)
    ELSE -1

\* findExifInJpeg(buffer)
findExifInJpeg(buffer) == FindExifFrom(buffer, 2)

\* --------------------------------------------------------- EXIF: the record
\* A template literal filled with a value, and a string constant: both are
\* strings that are not empty.
Formatted(fmt, of) == [t |-> "string", fmt |-> fmt, of |-> of]
Label(text) == [t |-> "string", label |-> text]

\* A throw statement reached.
Thrown == [t |-> "thrown"]

\* ToBoolean(v)
Truthy(v) ==
    CASE v.t \in {"undefined", "null"} -> FALSE
      [] v.t = "number" -> v.num # 0
      [] v.t = "string" -> IF "chars" \in DOMAIN v THEN v.chars # <<>> ELSE TRUE
      [] OTHER -> TRUE

\* v === k, for an integer k >= 0.
NumEquals(v, k) ==
    /\ v.t = "number" /\ v.den # 0
    /\ IF k = 0 THEN v.num = 0
       ELSE v.num % k = 0 /\ v.num \div k = v.den

\* v >= 1 and v > 0 (false for what does not convert to a number).
AtLeastOne(v) ==
    /\ v.t = "number"
    /\ \/ v.den > 0 /\ v.num >= v.den
       \/ v.den < 0 /\ v.num <= v.den

Positive(v) ==
    /\ v.t = "number"
    /\ \/ v.den > 0 /\ v.num > 0
       \/ v.den < 0 /\ v.num < 0

\* allData[name]
Get(tags, name) == IF name \in DOMAIN tags THEN tags[name] ELSE Undefined

\* v || null
OrNull(v) == IF Truthy(v) THEN v ELSE Null

\* Object.assign(target, source) and { ...target, ...source }
Assign(target, source) ==
    [k \in (DOMAIN target) \cup (DOMAIN source) |->
        IF k \in DOMAIN source THEN source[k] ELSE target[k]]

\* formatExposureTime(value)
formatExposureTime(value) ==
    IF ~Truthy(value) THEN Null
    ELSE IF AtLeastOne(value) THEN Formatted("${value}s", value)
    ELSE Formatted("1/${denominator}s", value)

\* formatAperture(value): toFixed exists on numbers only.
formatAperture(value) ==
    IF ~Truthy(value) THEN Null
    ELSE IF value.t = "number" THEN Formatted("f/${value.toFixed(1)}", value)
    ELSE Thrown

\* allData.maxApertureValue ? formatAperture(Math.pow(2, v / 2)) : null.
\* The power is NaN for what does not convert to a number, and underflows
\* to 0 for an integer v below -2150.
MaxAperture(v) ==
    IF ~Truthy(v) \/ v.t # "number" THEN Null
    ELSE IF v.den = 1 /\ v.num < -2150 THEN Null
    ELSE Formatted("f/${value.toFixed(1)}", Formatted("Math.pow(2, v / 2)", v))

\* allData.exposureBiasValue ? `${v > 0 ? '+' : ''}${v.toFixed(1)} EV` : null
ExposureBias(v) ==
    IF ~Truthy(v) THEN Null
    ELSE IF v.t # "number" THEN Thrown
    ELSE IF Positive(v) THEN Formatted("+${v.toFixed(1)} EV", v)
    ELSE Formatted("${v.toFixed(1)} EV", v)

\* FLASH_VALUES[flash] || (flash !== undefined ? `Unknown (${flash})` : null)
Flash(v) ==
    IF \E k \in FLASH_KEYS : NumEquals(v, k)
    THEN Label(<<"FLASH_VALUES", CHOOSE k \in FLASH_KEYS : NumEquals(v, k)>>)
    ELSE IF v # Undefined THEN Formatted("Unknown (${flash})", v)
    ELSE Null

\* ORIENTATIONS[orientation] || null
Orientation(v) ==
    IF \E k \in DOMAIN ORIENTATIONS : NumEquals(v, k)
    THEN Label(ORIENTATIONS[CHOOSE k \in DOMAIN ORIENTATIONS : NumEquals(v, k)])
    ELSE Null

\* gpsToDecimal(coords, ref): null unless coords is an array of three; else
\* the number made of degrees, minutes and seconds, negated for 'S' and 'W'
\* and rounded to six decimals.
gpsToDecimal(coords, ref) ==
    IF ~Truthy(coords) \/ coords.t # "array" \/ Len(coords.items) # 3 THEN Null
    ELSE [t |-> "number", decimal |-> coords.items,
          negated |-> ref \in {String(<<83>>), String(<<87>>)}]

camera(allData) ==
    [make |-> OrNull(Get(allData, "make")),
     model |-> OrNull(Get(allData, "model")),
     software |-> OrNull(Get(allData, "software")),
     artist |-> OrNull(Get(allData, "artist")),
     copyright |-> OrNull(Get(allData, "copyright")),
     bodySerialNumber |-> OrNull(Get(allData, "bodySerialNumber"))]

lens(allData) ==
    [make |-> OrNull(Get(allData, "lensMake")),
     model |-> OrNull(Get(allData, "lensModel")),
     serialNumber |-> OrNull(Get(allData, "lensSerialNumber")),
     focalLength |->
        IF Truthy(Get(allData, "focalLength"))
        THEN Formatted("${v}mm", Get(allData, "focalLength")) ELSE Null,
     focalLength35mm |->
        IF Truthy(Get(allData, "focalLengthIn35mmFilm"))
        THEN Formatted("${v}mm", Get(allData, "focalLengthIn35mmFilm")) ELSE Null,
     maxAperture |-> MaxAperture(Get(allData, "maxApertureValue"))]

exposure(allData) ==
    [time |-> formatExposureTime(Get(allData, "exposureTime")),
     timeValue |-> OrNull(Get(allData, "exposureTime")),
     aperture |-> formatAperture(Get(allData, "fNumber")),
     apertureValue |-> OrNull(Get(allData, "fNumber")),
     iso |-> OrNull(Get(allData, "isoSpeedRatings")),
     exposureBias |-> ExposureBias(Get(allData, "exposureBiasValue")),
     meteringMode |-> OrNull(Get(allData, "meteringMode")),
     flash |-> Flash(Get(allData, "flash")),
     whiteBalance |->
        IF NumEquals(Get(allData, "whiteBalance"), 0) THEN Label("Auto")
        ELSE IF NumEquals(Get(allData, "whiteBalance"), 1) THEN Label("Manual")
        ELSE Null]

image(allData) ==
    [width |-> OrNull(Get(allData, "pixelXDimension")),
     height |-> OrNull(Get(allData, "pixelYDimension")),
     orientation |-> Orientation(Get(allData, "orientation")),
     orientationValue |-> OrNull(Get(allData, "orientation")),
     colorSpace |->
        IF NumEquals(Get(allData, "colorSpace"), 1) THEN Label("sRGB")
        ELSE IF NumEquals(Get(allData, "colorSpace"), 65535) THEN Label("Uncalibrated")
        ELSE Null]

datetime(allData) ==
    [original |-> OrNull(Get(allData, "dateTimeOriginal")),
     digitized |-> OrNull(Get(allData, "dateTimeDigitized")),
     modified |-> OrNull(Get(allData, "dateTime"))]

\* The gps sub-record: null unless latitude and longitude both decode.
gps(allData) ==
    LET lat == gpsToDecimal(Get(allData, "gpsLatitude"), Get(allData, "gpsLatitudeRef"))
        lng == gpsToDecimal(Get(allData, "gpsLongitude"), Get(allData, "gpsLongitudeRef"))
    IN IF Truthy(Get(allData, "gpsLatitude")) /\ Truthy(Get(allData, "gpsLongitude"))
          /\ lat # Null /\ lng # Null
       THEN [latitude |-> lat,
             longitude |-> lng,
             latitudeRef |-> OrNull(Get(allData, "gpsLatitudeRef")),
             longitudeRef |-> OrNull(Get(allData, "gpsLongitudeRef")),
             altitude |-> OrNull(Get(allData, "gpsAltitude")),
             altitudeRef |->
                IF NumEquals(Get(allData, "gpsAltitudeRef"), 0)
                THEN Label("Above sea level")
                ELSE IF NumEquals(Get(allData, "gpsAltitudeRef"), 1)
                THEN Label("Below sea level")
                ELSE Null,
             timestamp |-> OrNull(Get(allData, "gpsTimeStamp")),
             datestamp |-> OrNull(Get(allData, "gpsDateStamp")),
             googleMapsUrl |-> Formatted("https://www.google.com/maps?q=${lat},${lng}",
                                         <<lat, lng>>)]
       ELSE Null

\* Fault variant of CleanUp: an empty sub-record is kept.
CleanUp_KeepsEmpty(sub) == sub

\* Clean up null values: a sub-record without a value that is not null
\* becomes null.
CleanUp(sub) ==
    IF sub # Null /\ (\A f \in DOMAIN sub : sub[f] = Null) THEN Null ELSE sub

SubRecords == {"camera", "lens", "exposure", "image", "datetime", "gps"}

\* Build structured result, from the merged tags; a TypeError of toFixed
\* leaves the try block.
BuildResult(allData) ==
    IF formatAperture(Get(allData, "fNumber")) = Thrown
       \/ ExposureBias(Get(allData, "exposureBiasValue")) = Thrown
    THEN Thrown
    ELSE [supported |-> TRUE,
          hasExif |-> TRUE,
          camera |-> CleanUp(camera(allData)),
          lens |-> CleanUp(lens(allData)),
          exposure |-> CleanUp(exposure(allData)),
          image |-> CleanUp(image(allData)),
          datetime |-> CleanUp(datetime(allData)),
          gps |-> CleanUp(gps(allData))]

\* -------------------------------------------------------- EXIF: extractExif
ExifPointerTag == 34665       \* 0x8769
GpsPointerTag == 34853        \* 0x8825

\* The loop that re-parses IFD0 for the pointer tags, from entry i on:
\* exifData after it.  The EXIF pointer assigns exifData, the GPS pointer
\* merges into it.  An entry that starts at or beyond the end of the buffer
\* reads as tag 0, and so do all the entries after it.
RECURSIVE PointedData(_, _, _, _, _, _, _)
PointedData(buffer, tiffOffset, ifd0Offset, littleEndian, numEntries, i, exifData) ==
    IF i >= numEntries \/ tiffOffset + ifd0Offset + 2 + (i * 12) >= Len(buffer)
    THEN exifData
    ELSE LET entryOffset == tiffOffset + ifd0Offset + 2 + (i * 12)
             tag == readUShort(buffer, entryOffset, littleEndian)
             pointer == readULong(buffer, entryOffset + 8, littleEndian)
             afterExif == IF tag = ExifPointerTag
                          THEN parseIFD(buffer, tiffOffset, pointer, littleEndian)
                          ELSE exifData
             afterGps == IF tag = GpsPointerTag
                         THEN Assign(afterExif,
                                     parseIFD(buffer, tiffOffset, pointer, littleEndian))
                         ELSE afterExif
         IN PointedData(buffer, tiffOffset, ifd0Offset, littleEndian, numEntries,
                        i + 1, afterGps)

\* byteOrder === 'II'
LittleEndianAt(buffer, tiffOffset) ==
    readString(buffer, tiffOffset, 2) = String(<<73, 73>>)

\* allData = { ...ifd0, ...exifData } for the TIFF header at tiffOffset.
AllData(buffer, tiffOffset) ==
    LET littleEndian == LittleEndianAt(buffer, tiffOffset)
        ifd0Offset == readULong(buffer, tiffOffset + 4, littleEndian)
        ifd0 == parseIFD(buffer, tiffOffset, ifd0Offset, littleEndian)
        numEntries == readUShort(buffer, tiffOffset + ifd0Offset, littleEndian)
    IN Assign(ifd0, PointedData(buffer, tiffOffset, ifd0Offset, littleEndian,
                                numEntries, 0, NoTags))

TiffMagic == 42               \* magic !== 42

\* Verify TIFF magic number: read little-endian after 'II' and big-endian
\* after anything else.
HeaderAccepted(buffer, tiffOffset) ==
    readUShort(buffer, tiffOffset + 2, LittleEndianAt(buffer, tiffOffset)) = TiffMagic

Unsupported(reason) == [supported |-> FALSE, reason |-> reason]
NoExif(reason) == [supported |-> TRUE, hasExif |-> FALSE, reason |-> reason]
ExtractFailed == [supported |-> TRUE, hasExif |-> FALSE, error |-> "error.message"]

JpegExts == {".jpg", ".jpeg"}
ExifExts == {".jpg", ".jpeg", ".tiff", ".tif"}

\* Find EXIF data: the TIFF origin, -1 when a JPEG holds none, -2 when the
\* JPEG magic bytes are wrong.
TiffOrigin(ext, buffer) ==
    IF ext \in JpegExts
    THEN IF Len(buffer) < 2 \/ buffer[1] # 255 \/ buffer[2] # 216 THEN -2
         ELSE findExifInJpeg(buffer)
    ELSE 0

\* The try block of extractExif once the origin is known: what it returns,
\* or Thrown.
FromOrigin(buffer, tiffOffset) ==
    IF tiffOffset = -2 THEN Unsupported("Invalid JPEG file")
    ELSE IF tiffOffset < 0 THEN NoExif("No EXIF data found")
    ELSE IF ~HeaderAccepted(buffer, tiffOffset) THEN NoExif("Invalid TIFF header")
    ELSE BuildResult(AllData(buffer, tiffOffset))

\* The try block of extractExif.
TryBlock(ext, buffer, readable) ==
    IF ~readable THEN Thrown ELSE FromOrigin(buffer, TiffOrigin(ext, buffer))

\* Fault variant of Caught: the error leaves extractExif.
Caught_Rethrown(outcome) == outcome

\* catch (error) { return { supported: true, hasExif: false, error } }
Caught(outcome) == IF outcome = Thrown THEN ExtractFailed ELSE outcome

\* extractExif(filePath): ext is extname(filePath).toLowerCase(), readable
\* the outcome of readFile.  A result of Thrown is a rejection.
extractExif(ext, buffer, readable) ==
    IF ext \notin ExifExts
    THEN Unsupported("EXIF extraction not supported for " \o ext)
    ELSE Caught(TryBlock(ext, buffer, readable))

\* ---------------------------------------------------- EXIF: the files read
\* The files given to the extractor are laid out from directory entries:
\* an entry has a tag id, a type code, a count and a value, the words of
\* which are written in the byte order of the file, in the entry's value
\* field ("inline"), in the data area after the directories ("data", the
\* value field then points to them), or which is the offset of the EXIF or
\* the GPS sub-directory ("exifPtr", "gpsPtr").
Word(w, v) == [w |-> w, v |-> v]
Chars(codes) == [k \in 1..Len(codes) |-> Word(1, codes[k])]
Longs(values) == [k \in 1..Len(values) |-> Word(4, values[k])]

EntryOf(tag, type, count, enc, words) ==
    [tag |-> tag, type |-> type, count |-> count, enc |-> enc, words |-> words]

\* make = "Canon", model = "R5" (ASCII); the second fits the value field.
MakeEntry == EntryOf(271, 2, 6, "data", Chars(<<67, 97, 110, 111, 110, 0>>))
ModelEntry == EntryOf(272, 2, 3, "inline", Chars(<<82, 53, 0>>))
\* orientation = 6 (SHORT), pixelXDimension = 4000 (LONG), fNumber = 28/10
\* (RATIONAL), fNumber as two rationals, exposureBiasValue = -1/3
\* (SRATIONAL), exifVersion = "0232" (UNDEFINED), brightnessValue = -2
\* (SLONG), gpsAltitudeRef = 1 (BYTE), and an entry of no known type.
OrientationEntry == EntryOf(274, 3, 1, "inline", <<Word(2, 6)>>)
WidthEntry == EntryOf(40962, 4, 1, "inline", Longs(<<4000>>))
FNumberEntry == EntryOf(33437, 5, 1, "data", Longs(<<28, 10>>))
FNumberPairEntry == EntryOf(33437, 5, 2, "data", Longs(<<28, 10, 40, 10>>))
BiasEntry ==
    EntryOf(37380, 10, 1, "data", Chars(<<255, 255, 255, 255>>) \o Longs(<<3>>))
VersionEntry == EntryOf(36864, 7, 4, "inline", Chars(<<48, 50, 51, 50>>))
BrightnessEntry == EntryOf(37379, 9, 1, "inline", Chars(<<254, 255, 255, 255>>))
AltitudeRefEntry == EntryOf(5, 1, 1, "inline", Chars(<<1>>))
UnknownTypeEntry == EntryOf(39321, 99, 1, "inline", Chars(<<7>>))
\* The pointers to the sub-directories.
ExifPointerEntry == EntryOf(34665, 4, 1, "exifPtr", <<>>)
GpsPointerEntry == EntryOf(34853, 4, 1, "gpsPtr", <<>>)
\* Tag ids 1 to 4 with the values of a GPS position: "N", 40 26' 46",
\* "W", 79 58' 56".
LatitudeRefEntry == EntryOf(1, 2, 2, "inline", Chars(<<78, 0>>))
LatitudeEntry == EntryOf(2, 5, 3, "data", Longs(<<40, 1, 26, 1, 46, 1>>))
LongitudeRefEntry == EntryOf(3, 2, 2, "inline", Chars(<<87, 0>>))
LongitudeEntry == EntryOf(4, 5, 3, "data", Longs(<<79, 1, 58, 1, 56, 1>>))

\* A 16-bit and a 32-bit value (below 2^31) in the given byte order.
Encode16(v, littleEndian) ==
    IF littleEndian THEN <<v % 256, v \div 256>> ELSE <<v \div 256, v % 256>>

Encode32(v, littleEndian) ==
    IF littleEndian
    THEN <<v % 256, (v \div 256) % 256, (v \div 65536) % 256, v \div 16777216>>
    ELSE <<v \div 16777216, (v \div 65536) % 256, (v \div 256) % 256, v % 256>>

EncodeWord(word, littleEndian) ==
    CASE word.w = 1 -> <<word.v>>
      [] word.w = 2 -> Encode16(word.v, littleEndian)
      [] OTHER -> Encode32(word.v, littleEndian)

RECURSIVE EncodeWords(_, _)
EncodeWords(words, littleEndian) ==
    IF words = <<>> THEN <<>>
    ELSE EncodeWord(Head(words), littleEndian) \o EncodeWords(Tail(words), littleEndian)

Zeros(n) == [k \in 1..n |-> 0]

\* The bytes of an entry's value that lie in the data area.
DataOf(entry, littleEndian) ==
    IF entry.enc = "data" THEN EncodeWords(entry.words, littleEndian) ELSE <<>>

RECURSIVE DataArea(_, _)
DataArea(entries, littleEndian) ==
    IF entries = <<>> THEN <<>>
    ELSE DataOf(Head(entries), littleEndian) \o DataArea(Tail(entries), littleEndian)

\* The 12 bytes of an entry whose data, if any, is at dataOffset.
EncodeEntry(entry, littleEndian, dataOffset, exifOffset, gpsOffset) ==
    Encode16(entry.tag, littleEndian) \o Encode16(entry.type, littleEndian)
    \o Encode32(entry.count, littleEndian)
    \o CASE entry.enc = "inline" ->
              LET bytes == EncodeWords(entry.words, littleEndian)
              IN bytes \o Zeros(4 - Len(bytes))
         [] entry.enc = "data" -> Encode32(dataOffset, littleEndian)
         [] entry.enc = "exifPtr" -> Encode32(exifOffset, littleEndian)
         [] OTHER -> Encode32(gpsOffset, littleEndian)

RECURSIVE EncodeEntries(_, _, _, _, _)
EncodeEntries(entries, littleEndian, dataOffset, exifOffset, gpsOffset) ==
    IF entries = <<>> THEN <<>>
    ELSE EncodeEntry(Head(entries), littleEndian, dataOffset, exifOffset, gpsOffset)
         \o EncodeEntries(Tail(entries), littleEndian,
                          dataOffset + Len(DataOf(Head(entries), littleEndian)),
                          exifOffset, gpsOffset)

\* A directory: the entry count, the entries and the offset of the next
\* directory (none).
DirectorySize(entries) == 2 + 12 * Len(entries) + 4

EncodeDirectory(entries, littleEndian, dataOffset, exifOffset, gpsOffset) ==
    Encode16(Len(entries), littleEndian)
    \o EncodeEntries(entries, littleEndian, dataOffset, exifOffset, gpsOffset)
    \o Zeros(4)

Ifd0Offset == 8               \* IFD0 follows the 8-byte TIFF header

\* The offsets, from the TIFF origin, of the two sub-directories.
ExifOffsetOf(tiff) == Ifd0Offset + DirectorySize(tiff.ifd0)
GpsOffsetOf(tiff) == ExifOffsetOf(tiff) + DirectorySize(tiff.exif)

\* A TIFF structure: the byte-order marker, the magic number, the byte order
\* its numbers are written in, and the entries of IFD0 and of the EXIF and
\* GPS sub-directories.
EncodeTiff(tiff) ==
    LET gpsOffset == GpsOffsetOf(tiff)
        data0 == gpsOffset + DirectorySize(tiff.gps)
        data1 == data0 + Len(DataArea(tiff.ifd0, tiff.little))
        data2 == data1 + Len(DataArea(tiff.exif, tiff.little))
    IN tiff.marker \o Encode16(tiff.magic, tiff.little)
       \o Encode32(Ifd0Offset, tiff.little)
       \o EncodeDirectory(tiff.ifd0, tiff.little, data0, ExifOffsetOf(tiff), gpsOffset)
       \o EncodeDirectory(tiff.exif, tiff.little, data1, ExifOffsetOf(tiff), gpsOffset)
       \o EncodeDirectory(tiff.gps, tiff.little, data2, ExifOffsetOf(tiff), gpsOffset)
       \o DataArea(tiff.ifd0, tiff.little)
       \o DataArea(tiff.exif, tiff.little)
       \o DataArea(tiff.gps, tiff.little)

Tiff(marker, magic, little, ifd0, exif, gpsDir) ==
    [marker |-> marker, magic |-> magic, little |-> little,
     ifd0 |-> ifd0, exif |-> exif, gps |-> gpsDir]

\* "II" and "MM", and a marker that is neither.
MarkerII == <<73, 73>>
MarkerMM == <<77, 77>>
MarkerXX == <<88, 88>>

\* ------------------------------------------------ findDuplicates: the state
VARIABLES
    nFiles,               \* files.length; the scanned paths are 1..nFiles, in scan order
    hashMethod,           \* options.hashMethod
    minSize,              \* options.minSize
    fs,                   \* what the run has observed of each scanned file
    pc,                   \* "sizing", "hashing", "done"
    idx,                  \* position of the running for loop (1-based)
    sizeGroups,           \* Map size -> paths, as entries in insertion order
    potentialDuplicates,  \* paths surviving the size pre-filter
    hashGroups,           \* Map hash -> paths, as entries in insertion order
    report                \* the returned object once pc = "done"

dupVars == <<nFiles, hashMethod, minSize, fs, pc, idx, sizeGroups,
             potentialDuplicates, hashGroups, report>>

Files == 1..nFiles

\* A file nothing has been observed of yet.
Unobserved ==
    [stat |-> "unseen", size |-> 0, read |-> "unseen", ext |-> "",
     bytes |-> <<>>, mtime |-> 0]

NoReport ==
    [scanned |-> 0, potentialDuplicates |-> 0, duplicateGroups |-> 0,
     totalDuplicates |-> 0, totalWastedSpace |-> 0, hashMethod |-> "",
     groups |-> <<>>]

\* ------------------------------------------------------- Map, as entries
MapHas(m, k) == \E e \in 1..Len(m) : m[e].key = k

\* The index of key k's entry in m.
MapIndex(m, k) == CHOOSE e \in 1..Len(m) : m[e].key = k

\* if (!m.has(k)) m.set(k, []); m.get(k).push(v)
MapPush(m, k, v) ==
    IF MapHas(m, k)
    THEN [m EXCEPT ![MapIndex(m, k)].list = Append(@, v)]
    ELSE Append(m, [key |-> k, list |-> <<v>>])

\* -------------------------------------------------- phase 1: size pre-filter
\* Fault variant of KeepsBucket: buckets of one file are kept too.
KeepsBucket_AnyBucket(fileList) == Len(fileList) > 0

\* The bucket test of the pre-filter: fileList.length > 1.
KeepsBucket(fileList) == Len(fileList) > 1

\* potentialDuplicates: the members of every kept bucket, in Map order.
RECURSIVE PotentialOf(_)
PotentialOf(groups) ==
    IF groups = <<>> THEN <<>>
    ELSE (IF KeepsBucket(Head(groups).list) THEN Head(groups).list ELSE <<>>)
         \o PotentialOf(Tail(groups))

\* The body of the phase-1 try block once stat has resolved with `size`:
\* sizes below minSize are skipped, the others are pushed to their bucket.
AddToSizeGroups(groups, size, file) ==
    IF size < minSize THEN groups ELSE MapPush(groups, size, file)

\* One iteration of `for (const file of files)`: stat the file; a rejected
\* stat is caught and the file skipped.
StatFile ==
    /\ pc = "sizing"
    /\ idx <= nFiles
    /\ \/ /\ fs' = [fs EXCEPT ![idx].stat = "err"]
          /\ UNCHANGED sizeGroups
       \/ \E size \in FileSizes :
             /\ fs' = [fs EXCEPT ![idx].stat = "ok", ![idx].size = size]
             /\ sizeGroups' = AddToSizeGroups(sizeGroups, size, idx)
    /\ idx' = idx + 1
    /\ UNCHANGED <<nFiles, hashMethod, minSize, pc, potentialDuplicates,
                   hashGroups, report>>

\* The loop over sizeGroups that fills potentialDuplicates.
FilterBySize ==
    /\ pc = "sizing"
    /\ idx > nFiles
    /\ potentialDuplicates' = PotentialOf(sizeGroups)
    /\ pc' = "hashing"
    /\ idx' = 1
    /\ UNCHANGED <<nFiles, hashMethod, minSize, fs, sizeGroups, hashGroups, report>>

\* ----------------------------------------------------- phase 2: hashing
\* The body of the phase-2 try block for a hash result h: a rejection is
\* caught and the file skipped, a hash is pushed to its bucket.
AddToHashGroups(groups, h, file) ==
    IF h.threw THEN groups ELSE MapPush(groups, h.value, file)

\* One iteration of `for (const file of potentialDuplicates)`: hash the file
\* with the selected strategy.  Of an unreadable file nothing but the
\* failure is observed (every strategy rejects, whatever the extension); the
\* extension of a readable one is observed by getFileCategory, so only
\* under 'perceptual'.
HashFile ==
    /\ pc = "hashing"
    /\ idx <= Len(potentialDuplicates)
    /\ LET file == potentialDuplicates[idx] IN
          \/ /\ fs' = [fs EXCEPT ![file].read = "err"]
             /\ hashGroups' = AddToHashGroups(hashGroups,
                                 HashForMethod(hashMethod, "", <<>>, FALSE), file)
          \/ \E ext \in (IF hashMethod = "perceptual" THEN ScanExts ELSE {""}),
                bytes \in ContentsOfSize(fs[file].size) :
                /\ fs' = [fs EXCEPT ![file].read = "ok", ![file].ext = ext,
                                    ![file].bytes = bytes]
                /\ hashGroups' = AddToHashGroups(hashGroups,
                                    HashForMethod(hashMethod, ext, bytes, TRUE), file)
    /\ idx' = idx + 1
    /\ UNCHANGED <<nFiles, hashMethod, minSize, pc, sizeGroups,
                   potentialDuplicates, report>>

\* ------------------------------------------------ phase 3: building groups
\* The object the Promise.all callback returns for one path: stat's size
\* and mtime, or the bare path when stat rejects.
FileInfo(info, file) ==
    IF info.stat = "ok"
    THEN [path |-> file, hasStat |-> TRUE, size |-> info.size, modified |-> info.mtime]
    ELSE [path |-> file, hasStat |-> FALSE, size |-> 0, modified |-> 0]

\* The comparator of groupFiles.sort: oldest first, entries without a
\* modification time last.
CompareModified(a, b) ==
    IF ~a.hasStat THEN 1
    ELSE IF ~b.hasStat THEN -1
    ELSE a.modified - b.modified

\* Array.prototype.sort is stable: x goes behind every element that does
\* not compare greater than it.
RECURSIVE InsertByModified(_, _)
InsertByModified(sorted, x) ==
    IF sorted = <<>> THEN <<x>>
    ELSE IF CompareModified(sorted[Len(sorted)], x) > 0
    THEN Append(InsertByModified(SubSeq(sorted, 1, Len(sorted) - 1), x),
                sorted[Len(sorted)])
    ELSE Append(sorted, x)

RECURSIVE SortByModified(_)
SortByModified(s) ==
    IF s = <<>> THEN <<>>
    ELSE InsertByModified(SortByModified(SubSeq(s, 1, Len(s) - 1)), s[Len(s)])

\* Fault variant of WastedSpace: the original's size is counted too.
WastedSpace_CountsOriginal(groupFiles) ==
    SeqSum([k \in 1..Len(groupFiles) |-> groupFiles[k].size])

\* groupFiles.slice(1).reduce((sum, f) => sum + (f.size || 0), 0)
WastedSpace(groupFiles) ==
    SeqSum([k \in 1..(Len(groupFiles) - 1) |-> groupFiles[k + 1].size])

\* Fault variant of DuplicatesOf: the original is listed among the duplicates.
DuplicatesOf_WholeGroup(groupFiles) == groupFiles

\* groupFiles.slice(1)
DuplicatesOf(groupFiles) == SubSeq(groupFiles, 2, Len(groupFiles))

\* The object pushed to duplicateGroups for one hash bucket.
MakeGroup(hash, fileList, groupFiles) ==
    [hash |-> hash,
     count |-> Len(fileList),
     files |-> groupFiles,
     original |-> groupFiles[1],
     duplicates |-> DuplicatesOf(groupFiles),
     wastedSpace |-> WastedSpace(groupFiles)]

\* The bucket test of the group loop: fileList.length > 1.
IsDuplicateBucket(fileList) == Len(fileList) > 1

\* Fault variant of DuplicatesIn: the original is counted as a duplicate.
DuplicatesIn_CountsOriginal(fileList) == Len(fileList)

\* The contribution of one group to totalDuplicates: fileList.length - 1.
DuplicatesIn(fileList) == Len(fileList) - 1

\* `for (const [hash, fileList] of hashGroups)`: the groups pushed to
\* duplicateGroups, in Map order; seen is the file system as stat shows it.
RECURSIVE GroupsOf(_, _)
GroupsOf(buckets, seen) ==
    IF buckets = <<>> THEN <<>>
    ELSE LET fileList == Head(buckets).list
             groupFiles == SortByModified(
                 [k \in 1..Len(fileList) |-> FileInfo(seen[fileList[k]], fileList[k])])
         IN (IF IsDuplicateBucket(fileList)
             THEN <<MakeGroup(Head(buckets).key, fileList, groupFiles)>>
             ELSE <<>>)
            \o GroupsOf(Tail(buckets), seen)

\* totalDuplicates after the loop.
RECURSIVE TotalDuplicatesOf(_)
TotalDuplicatesOf(buckets) ==
    IF buckets = <<>> THEN 0
    ELSE (IF IsDuplicateBucket(Head(buckets).list)
          THEN DuplicatesIn(Head(buckets).list) ELSE 0)
         + TotalDuplicatesOf(Tail(buckets))

\* totalWastedSpace after the loop.
TotalWastedOf(groups) == SeqSum([k \in 1..Len(groups) |-> groups[k].wastedSpace])

\* Fault variant of CompareWasted: smallest wasted space first.
CompareWasted_Ascending(a, b) == a.wastedSpace - b.wastedSpace

\* The comparator of duplicateGroups.sort: largest wasted space first.
CompareWasted(a, b) == b.wastedSpace - a.wastedSpace

RECURSIVE InsertByWasted(_, _)
InsertByWasted(sorted, x) ==
    IF sorted = <<>> THEN <<x>>
    ELSE IF CompareWasted(sorted[Len(sorted)], x) > 0
    THEN Append(InsertByWasted(SubSeq(sorted, 1, Len(sorted) - 1), x),
                sorted[Len(sorted)])
    ELSE Append(sorted, x)

RECURSIVE SortByWasted(_)
SortByWasted(s) ==
    IF s = <<>> THEN <<>>
    ELSE InsertByWasted(SortByWasted(SubSeq(s, 1, Len(s) - 1)), s[Len(s)])

\* The returned object.
MakeReport(buckets, seen) ==
    LET built == GroupsOf(buckets, seen) IN
    [scanned |-> nFiles,
     potentialDuplicates |-> Len(potentialDuplicates),
     duplicateGroups |-> Len(built),
     totalDuplicates |-> TotalDuplicatesOf(buckets),
     totalWastedSpace |-> TotalWastedOf(built),
     hashMethod |-> hashMethod,
     groups |-> SortByWasted(built)]

\* The paths in hash buckets of two or more: those phase 3 stats again.
Grouped ==
    {f \in Files : \E e \in 1..Len(hashGroups) :
        /\ IsDuplicateBucket(hashGroups[e].list)
        /\ \E k \in 1..Len(hashGroups[e].list) : hashGroups[e].list[k] = f}

\* Phase 3 to the return statement: every member of a bucket of two or more
\* is stat'ed again (which is where the run observes the modification
\* times), each such bucket becomes a group, the groups are sorted and the
\* report is returned.  A file that reaches a bucket was stat'ed in phase 1,
\* so with an unchanged file system this stat resolves too.
BuildGroups ==
    /\ pc = "hashing"
    /\ idx > Len(potentialDuplicates)
    /\ \E mtimes \in [Grouped -> Mtimes] :
          /\ fs' = [f \in Files |->
                      IF f \in Grouped THEN [fs[f] EXCEPT !.mtime = mtimes[f]]
                      ELSE fs[f]]
          /\ report' = MakeReport(hashGroups, fs')
    /\ pc' = "done"
    /\ UNCHANGED <<nFiles, hashMethod, minSize, idx, sizeGroups,
                   potentialDuplicates, hashGroups>>

\* --------------------------------------- the hash functions on their own
\* calculatePartialHash and calculateImagePerceptualHash, each called on two
\* files A and B.
VARIABLES
    bufA, bufB,       \* the contents of the two files
    extA, extB,       \* the extensions of their paths
    readsA, readsB,   \* the outcomes of the successive readFile calls on each
    chunkSize,        \* calculatePartialHash's chunkSize argument
    outA, outB,       \* what the calls returned (or that they rejected)
    hpc               \* "idle", "inputs", "hashedA", "hashed", "compared"

hashVars == <<bufA, bufB, extA, extB, readsA, readsB, chunkSize, outA, outB, hpc>>

MaxLen == 7         \* length of a file given to calculatePartialHash
MaxChunk == 2       \* chunkSize given to calculatePartialHash
MaxImageLen == 3    \* length of a file given to calculateImagePerceptualHash

\* Extensions of the paths given to calculateImagePerceptualHash.
ImageExts == {".jpg", ".jpeg", ".png", ".gif"}

\* Outcomes of the (up to three) readFile calls of one
\* calculateImagePerceptualHash call; the third is only made after the first
\* succeeded and the second failed.
ReadOutcomes ==
    {<<TRUE, TRUE, TRUE>>, <<TRUE, FALSE, TRUE>>, <<TRUE, FALSE, FALSE>>,
     <<FALSE, TRUE, TRUE>>, <<FALSE, FALSE, FALSE>>}

AllReadsOk == <<TRUE, TRUE, TRUE>>

NoResult == [threw |-> FALSE, value |-> ""]

\* Neither hash function is being run on its own.
HashIdle ==
    /\ bufA = <<>> /\ bufB = <<>>
    /\ extA = "" /\ extB = ""
    /\ readsA = AllReadsOk /\ readsB = AllReadsOk
    /\ chunkSize = DefaultChunkSize
    /\ outA = NoResult /\ outB = NoResult
    /\ hpc = "idle"

\* Two readable files of one length and a chunk size of at least one byte.
PartialInit ==
    /\ \E len \in 0..MaxLen : bufA \in BuffersOfLen(len) /\ bufB \in BuffersOfLen(len)
    /\ chunkSize \in 1..MaxChunk
    /\ extA = "" /\ extB = ""
    /\ readsA = AllReadsOk /\ readsB = AllReadsOk
    /\ outA = NoResult /\ outB = NoResult
    /\ hpc = "inputs"

\* calculatePartialHash(A, chunkSize)
PartialHashA ==
    /\ hpc = "inputs"
    /\ outA' = calculatePartialHash(bufA, chunkSize, readsA[1])
    /\ hpc' = "hashedA"
    /\ UNCHANGED <<bufA, bufB, extA, extB, readsA, readsB, chunkSize, outB>>

\* calculatePartialHash(B, chunkSize)
PartialHashB ==
    /\ hpc = "hashedA"
    /\ outB' = calculatePartialHash(bufB, chunkSize, readsB[1])
    /\ hpc' = "hashed"
    /\ UNCHANGED <<bufA, bufB, extA, extB, readsA, readsB, chunkSize, outA>>

\* Two image paths, their contents and what their readFile calls will do.
PerceptualInit ==
    /\ \E len \in 0..MaxImageLen : bufA \in BuffersOfLen(len)
    /\ \E len \in 0..MaxImageLen : bufB \in BuffersOfLen(len)
    /\ extA \in ImageExts /\ extB \in ImageExts
    /\ readsA \in ReadOutcomes /\ readsB \in ReadOutcomes
    /\ chunkSize = DefaultChunkSize
    /\ outA = NoResult /\ outB = NoResult
    /\ hpc = "inputs"

\* calculateImagePerceptualHash(A)
PerceptualHashA ==
    /\ hpc = "inputs"
    /\ outA' = calculateImagePerceptualHash(extA, bufA, readsA)
    /\ hpc' = "hashedA"
    /\ UNCHANGED <<bufA, bufB, extA, extB, readsA, readsB, chunkSize, outB>>

\* calculateImagePerceptualHash(B)
PerceptualHashB ==
    /\ hpc = "hashedA"
    /\ outB' = calculateImagePerceptualHash(extB, bufB, readsB)
    /\ hpc' = "hashed"
    /\ UNCHANGED <<bufA, bufB, extA, extB, readsA, readsB, chunkSize, outA>>

\* ------------------------------------------------- compareFiles on two files
\* compareFiles(A, B) takes its two files from bufA, bufB, extA, extB, readsA
\* and readsB; the file system is static during the call, so all the
\* readFile calls on a file have one outcome.
VARIABLES
    statsA, statsB,   \* whether stat resolves for each file
    comparison        \* what compareFiles returned (or that it rejected)

cmpVars == <<statsA, statsB, comparison>>

\* The chunk sizes compareFiles is run with: the default of
\* calculatePartialHash and, so that files of more than one chunk occur
\* among the bounded files, chunks of a few bytes.
CompareChunkSizes == (1..MaxChunk) \cup {DefaultChunkSize}

StaticReads == {<<TRUE, TRUE, TRUE>>, <<FALSE, FALSE, FALSE>>}

\* compareFiles is not being run.
CmpIdle ==
    /\ statsA = TRUE /\ statsB = TRUE
    /\ comparison = ComparisonThrew

CompareInit ==
    /\ \E len \in 0..MaxImageLen : bufA \in BuffersOfLen(len)
    /\ \E len \in 0..MaxImageLen : bufB \in BuffersOfLen(len)
    /\ extA \in ScanExts /\ extB \in ScanExts
    /\ readsA \in StaticReads /\ readsB \in StaticReads
    /\ statsA \in BOOLEAN /\ statsB \in BOOLEAN
    /\ chunkSize \in CompareChunkSizes
    /\ outA = NoResult /\ outB = NoResult
    /\ comparison = ComparisonThrew
    /\ hpc = "inputs"

\* compareFiles(A, B)
CompareFiles ==
    /\ hpc = "inputs"
    /\ comparison' = compareFiles(CompareFile(statsA, extA, bufA, readsA[1]),
                                  CompareFile(statsB, extB, bufB, readsB[1]),
                                  chunkSize)
    /\ hpc' = "compared"
    /\ UNCHANGED <<bufA, bufB, extA, extB, readsA, readsB, chunkSize, outA, outB,
                   statsA, statsB>>

\* ------------------------------------------------- the EXIF extractor: state
VARIABLES
    exExt,        \* extname(filePath).toLowerCase()
    exReadable,   \* whether readFile(filePath) resolves
    exBuffer,     \* the bytes the extractor works on
    exLittle,     \* the littleEndian flag of a direct call of the byte reader
                  \* or of parseIFD
    exOffset,     \* findExifInJpeg: offset
    exOrigin,     \* findExifInJpeg: the origin returned, -1 for not found
    exTags,       \* the tag map of parseIFD; in extractExif, allData
    exOut,        \* what the call returned
    epc           \* "idle", "inputs", "read", "parsed", "scanning", "scanned",
                  \* "extracted"

exifVars == <<exExt, exReadable, exBuffer, exLittle, exOffset, exOrigin, exTags,
              exOut, epc>>

\* The EXIF extractor is not being run.
ExifIdle ==
    /\ exExt = "" /\ exReadable = TRUE
    /\ exBuffer = <<>>
    /\ exLittle = FALSE
    /\ exOffset = 0 /\ exOrigin = -1
    /\ exTags = NoTags
    /\ exOut = Undefined
    /\ epc = "idle"

\* ------------------------------------------------- the byte reader on its own
\* Byte values of the buffers given to the byte reader: the least and the
\* greatest byte and the two next to the sign bit.
ReaderBytes == {0, 127, 128, 255}

\* The length of a rational: two longs.
RationalLen == 8

ReaderInit ==
    /\ exBuffer \in [1..RationalLen -> ReaderBytes]
    /\ exLittle \in BOOLEAN
    /\ exExt = "" /\ exReadable = TRUE
    /\ exOffset = 0 /\ exOrigin = -1
    /\ exTags = NoTags
    /\ exOut = Undefined
    /\ epc = "inputs"

\* readUShort, readULong, readRational and readSRational at offset 0, and
\* the value parseIFD makes of an SLONG there.
ReadValues ==
    /\ epc = "inputs"
    /\ exOut' = [ushort    |-> readUShort(exBuffer, 0, exLittle),
                 ulong     |-> readULong(exBuffer, 0, exLittle),
                 rational  |-> readRational(exBuffer, 0, exLittle),
                 srational |-> readSRational(exBuffer, 0, exLittle),
                 slong     |-> EntryValue(exBuffer, 0, 9, 1, exLittle)]
    /\ epc' = "read"
    /\ UNCHANGED <<exExt, exReadable, exBuffer, exLittle, exOffset, exOrigin, exTags>>

\* ------------------------------------------------------ parseIFD on its own
MaxEntries == 2     \* entries of the directory given to parseIFD

\* The entries a directory given to parseIFD is made of: one of every type
\* code, values in the value field and values in the data area.
DirectoryEntries ==
    {MakeEntry, ModelEntry, OrientationEntry, WidthEntry, FNumberEntry,
     BiasEntry, VersionEntry, BrightnessEntry, AltitudeRefEntry,
     UnknownTypeEntry, LatitudeEntry}

\* The sequences of 1..n different elements of S.
Arrangements(S, n) ==
    {q \in UNION {[1..k -> S] : k \in 1..n} :
        \A i, j \in 1..Len(q) : i # j => q[i] # q[j]}

\* A TIFF file with one directory, in either byte order, and every file
\* obtained by cutting bytes off its end.
DirectoryInit ==
    /\ exLittle \in BOOLEAN
    /\ \E entries \in Arrangements(DirectoryEntries, MaxEntries) :
         LET whole == EncodeTiff(Tiff(IF exLittle THEN MarkerII ELSE MarkerMM,
                                      TiffMagic, exLittle, entries, <<>>, <<>>))
         IN \E len \in Ifd0Offset..Len(whole) : exBuffer = SubSeq(whole, 1, len)
    /\ exExt = ".tif" /\ exReadable = TRUE
    /\ exOffset = 0 /\ exOrigin = 0
    /\ exTags = NoTags
    /\ exOut = Undefined
    /\ epc = "inputs"

\* parseIFD(buffer, 0, 8, littleEndian)
ParseDirectory ==
    /\ epc = "inputs"
    /\ exTags' = parseIFD(exBuffer, exOrigin, Ifd0Offset, exLittle)
    /\ epc' = "parsed"
    /\ UNCHANGED <<exExt, exReadable, exBuffer, exLittle, exOffset, exOrigin, exOut>>

\* ------------------------------------------------ findExifInJpeg on its own
MaxSegments == 3    \* pieces that follow the SOI marker of a JPEG buffer

\* The pieces the JPEG buffers are made of: an APP0 segment, an APP1
\* segment without and one with the Exif signature, a DQT segment, a COM
\* segment whose payload is FF DA, a COM segment whose payload is the bytes
\* of an APP1 segment with the signature, a Start-Of-Scan marker, APP0
\* segments declaring the length 0 and a length beyond the buffer, a fill
\* byte and the EOI marker.
JpegPieces ==
    {<<255, 224, 0, 4, 74, 70>>,
     <<255, 225, 0, 4, 104, 116>>,
     <<255, 225, 0, 8, 69, 120, 105, 102, 0, 0>>,
     <<255, 219, 0, 4, 1, 2>>,
     <<255, 254, 0, 4, 255, 218>>,
     <<255, 254, 0, 12, 255, 225, 0, 8, 69, 120, 105, 102, 0, 0>>,
     <<255, 218, 0, 2>>,
     <<255, 224, 0, 0>>,
     <<255, 224, 255, 255>>,
     <<0>>,
     <<255, 217>>}

SOI == <<255, 216>>

RECURSIVE Flatten(_)
Flatten(pieces) ==
    IF pieces = <<>> THEN <<>> ELSE Head(pieces) \o Flatten(Tail(pieces))

\* A buffer that passed the JPEG magic check of extractExif.
JpegInit ==
    /\ \E k \in 0..MaxSegments : \E pieces \in [1..k -> JpegPieces] :
          exBuffer = SOI \o Flatten(pieces)
    /\ exExt = ".jpg" /\ exReadable = TRUE
    /\ exLittle = FALSE
    /\ exOffset = 2 /\ exOrigin = -1
    /\ exTags = NoTags
    /\ exOut = Undefined
    /\ epc = "scanning"

\* One iteration of the loop of findExifInJpeg.
ScanIteration ==
    /\ epc = "scanning"
    /\ exOffset < Len(exBuffer) - 4
    /\ LET step == ScanStep(exBuffer, exOffset)
       IN CASE step.op = "return" ->
                 exOrigin' = step.offset /\ epc' = "scanned" /\ UNCHANGED exOffset
            [] step.op = "break" ->
                 exOrigin' = -1 /\ epc' = "scanned" /\ UNCHANGED exOffset
            [] OTHER ->
                 exOffset' = step.offset /\ UNCHANGED <<exOrigin, epc>>
    /\ UNCHANGED <<exExt, exReadable, exBuffer, exLittle, exTags, exOut>>

\* The loop condition fails: return -1.
ScanExhausted ==
    /\ epc = "scanning"
    /\ ~(exOffset < Len(exBuffer) - 4)
    /\ exOrigin' = -1
    /\ epc' = "scanned"
    /\ UNCHANGED <<exExt, exReadable, exBuffer, exLittle, exOffset, exTags, exOut>>

\* extractExif goes on with the origin findExifInJpeg returned.
ExtractFromOrigin ==
    /\ epc = "scanned"
    /\ exOut' = Caught(FromOrigin(exBuffer, exOrigin))
    /\ exTags' = IF exOrigin >= 0 /\ HeaderAccepted(exBuffer, exOrigin)
                 THEN AllData(exBuffer, exOrigin) ELSE NoTags
    /\ epc' = "extracted"
    /\ UNCHANGED <<exExt, exReadable, exBuffer, exLittle, exOffset, exOrigin>>

\* ------------------------------------------------------ extractExif on a file
MaxIfd0 == 3        \* entries of IFD0 in the files given to extractExif

\* The bytes of a JPEG file whose APP1 segment holds the TIFF structure.
JpegAround(tiffBytes) ==
    SOI \o <<255, 224, 0, 4, 74, 70>>
    \o <<255, 225>> \o Encode16(Len(tiffBytes) + 8, FALSE) \o ExifSignature
    \o tiffBytes

\* The bytes of a file of the given extension that holds the TIFF structure.
FileBytes(ext, tiffBytes) ==
    IF ext \in JpegExts THEN JpegAround(tiffBytes) ELSE tiffBytes

\* A file with make, both sub-directories, an aperture and a position.
WholeTiff(little) ==
    Tiff(IF little THEN MarkerII ELSE MarkerMM, TiffMagic, little,
         <<MakeEntry, ExifPointerEntry, GpsPointerEntry>>,
         <<FNumberEntry>>,
         <<LatitudeRefEntry, LatitudeEntry, LongitudeRefEntry, LongitudeEntry>>)

\* The entries IFD0 is arranged from, and the two sub-directories: tag ids
\* 2 and 4 occur in IFD0, in the EXIF and in the GPS sub-directory.
Ifd0Entries ==
    {MakeEntry, ModelEntry, ExifPointerEntry, GpsPointerEntry, LatitudeEntry,
     LongitudeEntry, FNumberPairEntry}

ExifDirectories ==
    {<<>>, <<FNumberEntry>>, <<FNumberEntry, LatitudeEntry, LongitudeEntry>>}

GpsDirectories ==
    {<<LatitudeRefEntry, LatitudeEntry, LongitudeRefEntry, LongitudeEntry>>,
     <<AltitudeRefEntry>>}

\* Files of any extension, unreadable files, JPEG files with wrong magic
\* bytes or without an APP1 segment.
ContainerFiles ==
    [ext : {".png", ".jpg", ".jpeg", ".tiff", ".tif"}, readable : BOOLEAN,
     buffer : {<<>>, EncodeTiff(WholeTiff(TRUE)), JpegAround(EncodeTiff(WholeTiff(FALSE))),
               SOI \o <<255, 224, 0, 4, 74, 70, 255, 218, 0, 2, 0, 0, 0>>}]

\* TIFF headers: every byte-order marker with every magic number, written
\* in either byte order.
HeaderFiles ==
    {[ext |-> ext, readable |-> TRUE,
      buffer |-> FileBytes(ext, EncodeTiff(Tiff(marker, magic, little,
                                                <<MakeEntry>>, <<>>, <<>>)))] :
        ext \in {".jpg", ".tif"}, marker \in {MarkerII, MarkerMM, MarkerXX},
        magic \in {TiffMagic, TiffMagic + 1}, little \in BOOLEAN}

\* Well-formed files: every arrangement of IFD0 with every pair of
\* sub-directories.
DirectoryFiles ==
    {[ext |-> ext, readable |-> TRUE,
      buffer |-> FileBytes(ext, EncodeTiff(Tiff(IF little THEN MarkerII ELSE MarkerMM,
                                                TiffMagic, little, ifd0, exif, gpsDir)))] :
        ext \in {".jpg", ".tif"}, little \in BOOLEAN,
        ifd0 \in Arrangements(Ifd0Entries, MaxIfd0),
        exif \in ExifDirectories, gpsDir \in GpsDirectories}

\* Truncated files: every prefix of a whole file.
TruncatedFiles ==
    UNION {{[ext |-> ext, readable |-> TRUE,
             buffer |-> SubSeq(FileBytes(ext, EncodeTiff(WholeTiff(little))), 1, len)] :
               len \in 0..Len(FileBytes(ext, EncodeTiff(WholeTiff(little))))} :
           ext \in {".jpg", ".tif"}, little \in BOOLEAN}

\* Arbitrary bytes: every buffer of up to three of the bytes 'I', 'M', 42,
\* 0 and 0xFF.
ArbitraryFiles ==
    [ext : {".jpg", ".tif"}, readable : {TRUE},
     buffer : UNION {[1..k -> {73, 77, 42, 0, 255}] : k \in 0..3}]

ExifFiles ==
    ContainerFiles \cup HeaderFiles \cup DirectoryFiles \cup TruncatedFiles
    \cup ArbitraryFiles

ExtractInit ==
    /\ \E file \in ExifFiles :
          exExt = file.ext /\ exReadable = file.readable /\ exBuffer = file.buffer
    /\ exLittle = FALSE
    /\ exOffset = 0 /\ exOrigin = -1
    /\ exTags = NoTags
    /\ exOut = Undefined
    /\ epc = "inputs"

\* Whether extractExif gets as far as decoding directories.
Decodes(ext, buffer, readable) ==
    /\ ext \in ExifExts /\ readable
    /\ TiffOrigin(ext, buffer) >= 0
    /\ HeaderAccepted(buffer, TiffOrigin(ext, buffer))

\* extractExif(filePath)
ExtractExif ==
    /\ epc = "inputs"
    /\ exOut' = extractExif(exExt, exBuffer, exReadable)
    /\ exOrigin' = IF exExt \in ExifExts /\ exReadable
                   THEN TiffOrigin(exExt, exBuffer) ELSE -1
    /\ exTags' = IF Decodes(exExt, exBuffer, exReadable)
                 THEN AllData(exBuffer, TiffOrigin(exExt, exBuffer)) ELSE NoTags
    /\ epc' = "extracted"
    /\ UNCHANGED <<exExt, exReadable, exBuffer, exLittle, exOffset>>

\* ------------------------------------------------------ the query router
MaxRequests == 3    \* tool calls the server answers

\* A reference that is null.
NullRef == "null"

\* The collections routeQuery keeps local whatever the local server holds.
LocalOnlyCollections ==
    {"vinos_environments", "vinos_state", "mcp_registry", "chromadb_routing",
     "pattern_cache"}

\* The collections asked for: the default of search_context, one of the
\* local-only list and one more.
RequestedCollections == {"vinos_codebase", "vinos_state", "docs"}

\* What the local server holds of the environment: whether vinos_state
\* and vinos_environments can be read, the environment of the record
\* current_environment and the chromadb_remote of that environment's
\* record.
StateStores ==
    [readable : BOOLEAN, environment : {NullRef, "prod"},
     remote : {NullRef, "http://remote:8000"}]

\* What listCollections of the local server gives: the names, or an error.
Listings == [ok : BOOLEAN, names : SUBSET {"vinos_codebase", "docs"}]

VARIABLES
    this,             \* the server object: routerEnabled, currentEnvironment,
                      \* remoteUrl, remoteClient, localClient
    stateStore,       \* the environment records of the local server
    listing,          \* the collections of the local server
    started,          \* whether run() has initialised the environment
    requests,         \* tool calls answered so far
    collection,       \* the collection of the last search_context call
    route,            \* what routeQuery returned for it
    client            \* the client getClient returned for it

routerVars == <<this, stateStore, listing, started, requests, collection, route, client>>

\* constructor()
NewServer(enabled) ==
    [localClient |-> NullRef, remoteClient |-> NullRef,
     currentEnvironment |-> NullRef, remoteUrl |-> NullRef,
     routerEnabled |-> enabled]

\* getLocalClient(): the server object after the call.
getLocalClient(self) ==
    IF self.localClient = NullRef THEN [self EXCEPT !.localClient = "local"] ELSE self

\* getRemoteClient(): the server object after the call; the call returns
\* its remoteClient.
getRemoteClient(self) ==
    IF self.remoteClient = NullRef /\ self.remoteUrl # NullRef
    THEN [self EXCEPT !.remoteClient = self.remoteUrl]
    ELSE self

\* getCurrentEnvironment(): the server object after the call.  A
\* collection that cannot be read throws, which the catch block logs.
getCurrentEnvironment(self, store) ==
    IF ~self.routerEnabled THEN self
    ELSE IF ~store.readable \/ store.environment = NullRef THEN getLocalClient(self)
    ELSE [getLocalClient(self) EXCEPT
            !.currentEnvironment = store.environment,
            !.remoteUrl = IF store.remote # NullRef THEN store.remote ELSE @]

\* routeQuery(query, collection): the route.
routeQuery(self, name, local) ==
    IF ~self.routerEnabled THEN "local"
    ELSE IF local.ok /\ name \in local.names THEN "local"
    ELSE IF name \in LocalOnlyCollections THEN "local"
    ELSE IF self.remoteClient # NullRef THEN "remote" ELSE "local"

\* The server object after routeQuery: it asks for the local client.
AfterRouteQuery(self) == IF ~self.routerEnabled THEN self ELSE getLocalClient(self)

\* getClient(preferredRoute): the server object after the environment is
\* initialised, and after the call.
EnvironmentReady(self, store) ==
    IF self.currentEnvironment = NullRef THEN getCurrentEnvironment(self, store)
    ELSE self

TakesRemote(self, preferredRoute, store) ==
    /\ self.routerEnabled
    /\ preferredRoute = "remote"
    /\ EnvironmentReady(self, store).remoteClient # NullRef

AfterGetClient(self, preferredRoute, store) ==
    IF ~self.routerEnabled THEN getLocalClient(self)
    ELSE IF TakesRemote(self, preferredRoute, store)
    THEN getRemoteClient(EnvironmentReady(self, store))
    ELSE getLocalClient(EnvironmentReady(self, store))

\* The client getClient returns: "remote" for the remote client, "local"
\* for the local one.
getClient(self, preferredRoute, store) ==
    IF TakesRemote(self, preferredRoute, store) THEN "remote" ELSE "local"

RouterInit ==
    /\ \E enabled \in BOOLEAN : this = NewServer(enabled)
    /\ stateStore \in StateStores
    /\ listing \in Listings
    /\ started = FALSE
    /\ requests = 0
    /\ collection = NullRef /\ route = NullRef /\ client = NullRef

\* No server.
RouterIdle ==
    /\ this = NewServer(FALSE)
    /\ stateStore = [readable |-> FALSE, environment |-> NullRef, remote |-> NullRef]
    /\ listing = [ok |-> FALSE, names |-> {}]
    /\ started = FALSE
    /\ requests = 0
    /\ collection = NullRef /\ route = NullRef /\ client = NullRef

\* run(): initialize environment on startup.
Run ==
    /\ ~started
    /\ started' = TRUE
    /\ this' = getCurrentEnvironment(this, stateStore)
    /\ UNCHANGED <<stateStore, listing, requests, collection, route, client>>

\* The tool search_context, up to the client it queries.
SearchContext ==
    /\ requests < MaxRequests
    /\ \E name \in RequestedCollections :
          /\ collection' = name
          /\ route' = routeQuery(this, name, listing)
          /\ client' = getClient(AfterRouteQuery(this),
                                 routeQuery(this, name, listing), stateStore)
          /\ this' = AfterGetClient(AfterRouteQuery(this),
                                    routeQuery(this, name, listing), stateStore)
    /\ requests' = requests + 1
    /\ UNCHANGED <<stateStore, listing, started>>

\* The tool get_environment.
GetEnvironment ==
    /\ requests < MaxRequests
    /\ this' = getCurrentEnvironment(this, stateStore)
    /\ requests' = requests + 1
    /\ UNCHANGED <<stateStore, listing, started, collection, route, client>>

\* The tools list_collections and find_similar_patterns, as far as they
\* touch the clients: the remote client is asked for when there is one.
ListCollections ==
    /\ requests < MaxRequests
    /\ this' = IF this.remoteClient # NullRef
               THEN getRemoteClient(getLocalClient(this))
               ELSE getLocalClient(this)
    /\ requests' = requests + 1
    /\ UNCHANGED <<stateStore, listing, started, collection, route, client>>

\* ------------------------------------------------------ batchProcessFiles
MaxBatchFiles == 4     \* files given to batchProcessFiles
MaxConcurrency == 3    \* options.concurrency

VARIABLES
    batchFiles,       \* files: for each, whether processFile resolves
    concurrency,      \* options.concurrency
    batchIndex,       \* i of the for loop (0-based)
    batchResults,     \* the promises of the running batch: Pending, or
                      \* what the promise resolved to
    results,          \* results
    errors,           \* errors
    processed,        \* processed
    progress,         \* the arguments onProgress was called with, in order
    returned,         \* what batchProcessFiles returned
    bpc               \* "idle", "loop", "awaiting", "returned"

batchVars == <<batchFiles, concurrency, batchIndex, batchResults, results, errors,
               processed, progress, returned, bpc>>

\* Fault variant of BatchOf: the batch is one file short.
BatchOf_OneShort(files, i, n) ==
    [k \in 1..(Min(i + n - 1, Len(files)) - i) |-> i + k]

\* files.slice(i, i + concurrency): the files of the batch, a file being
\* its position in files (1-based).
BatchOf(files, i, n) ==
    [k \in 1..(Min(i + n, Len(files)) - i) |-> i + k]

\* A promise of the batch that has not settled.
Pending == [pending |-> TRUE]

\* What the promise of a file resolves to: { success: true, result } or
\* { success: false, file, error }.
Settled(files, file) ==
    IF files[file] THEN [success |-> TRUE, result |-> file]
    ELSE [success |-> FALSE, file |-> file, error |-> "error.message"]

\* Math.round((processed / total) * 100)
Percent(count, total) == (200 * count + total) \div (2 * total)

\* The for loop over batchResults from position k on: the results, the
\* errors, processed and the calls of onProgress after it.
RECURSIVE Collect(_, _, _)
Collect(all, k, acc) ==
    IF k > Len(all) THEN acc
    ELSE LET res == all[k]
             count == acc.processed + 1
         IN Collect(all, k + 1,
                [results |-> IF res.success THEN Append(acc.results, res.result)
                             ELSE acc.results,
                 errors |-> IF res.success THEN acc.errors
                            ELSE Append(acc.errors,
                                        [file |-> res.file, error |-> res.error]),
                 processed |-> count,
                 total |-> acc.total,
                 progress |-> Append(acc.progress,
                                [processed |-> count,
                                 total |-> acc.total,
                                 percent |-> Percent(count, acc.total),
                                 current |-> IF res.success THEN res.result
                                             ELSE res.file])])

NoBatchReturn == [results |-> <<>>, errors |-> <<>>,
                  stats |-> [total |-> 0, processed |-> 0, failed |-> 0]]

BatchInit ==
    /\ \E n \in 0..MaxBatchFiles : batchFiles \in [1..n -> BOOLEAN]
    /\ concurrency \in 1..MaxConcurrency
    /\ batchIndex = 0
    /\ batchResults = <<>>
    /\ results = <<>> /\ errors = <<>>
    /\ processed = 0
    /\ progress = <<>>
    /\ returned = NoBatchReturn
    /\ bpc = "loop"

\* batchProcessFiles is not being run.
BatchIdle ==
    /\ batchFiles = <<>>
    /\ concurrency = 1
    /\ batchIndex = 0
    /\ batchResults = <<>>
    /\ results = <<>> /\ errors = <<>>
    /\ processed = 0
    /\ progress = <<>>
    /\ returned = NoBatchReturn
    /\ bpc = "idle"

\* The loop condition holds: batch.map starts processFile on every file of
\* the batch.
StartBatch ==
    /\ bpc = "loop"
    /\ batchIndex < Len(batchFiles)
    /\ batchResults' = [k \in DOMAIN BatchOf(batchFiles, batchIndex, concurrency)
                          |-> Pending]
    /\ bpc' = "awaiting"
    /\ UNCHANGED <<batchFiles, concurrency, batchIndex, results, errors, processed,
                   progress, returned>>

\* processFile of one file of the batch resolves or rejects; the files of
\* a batch settle in any order.
SettleFile ==
    /\ bpc = "awaiting"
    /\ \E k \in DOMAIN batchResults :
          /\ batchResults[k] = Pending
          /\ batchResults' =
                [batchResults EXCEPT
                   ![k] = Settled(batchFiles,
                                  BatchOf(batchFiles, batchIndex, concurrency)[k])]
    /\ UNCHANGED <<batchFiles, concurrency, batchIndex, results, errors, processed,
                   progress, returned, bpc>>

\* Promise.all resolves: the results of the batch are collected in the
\* order of the batch, and the loop goes on with i += concurrency.
CollectBatch ==
    /\ bpc = "awaiting"
    /\ \A k \in DOMAIN batchResults : batchResults[k] # Pending
    /\ LET after == Collect(batchResults, 1,
                             [results |-> results, errors |-> errors,
                              processed |-> processed, total |-> Len(batchFiles),
                              progress |-> progress])
       IN /\ results' = after.results
          /\ errors' = after.errors
          /\ processed' = after.processed
          /\ progress' = after.progress
    /\ batchIndex' = batchIndex + concurrency
    /\ batchResults' = <<>>
    /\ bpc' = "loop"
    /\ UNCHANGED <<batchFiles, concurrency, returned>>

\* The loop condition fails: return { results, errors, stats }.
ReturnBatch ==
    /\ bpc = "loop"
    /\ ~(batchIndex < Len(batchFiles))
    /\ returned' = [results |-> results, errors |-> errors,
                    stats |-> [total |-> Len(batchFiles),
                               processed |-> Len(results),
                               failed |-> Len(errors)]]
    /\ bpc' = "returned"
    /\ UNCHANGED <<batchFiles, concurrency, batchIndex, batchResults, results, errors,
                   processed, progress>>

\* ------------------------------------------------------ the folder watcher
MaxWatchers == 2    \* watchers created by fs.watch
MaxStarts == 2      \* startWatcher calls
MaxPasses == 2      \* processPending passes running at a time
MaxIngests == 2     \* processNewFile calls per watcher and file
MaxWatchedFiles == 1    \* files events are reported for

\* The paths watched, and the files events are reported for: a file is
\* its number.
WatchPaths == {"inbox"}
WatchedFiles == 1..MaxWatchedFiles

VARIABLES
    activeWatchers,   \* the registry: for each path the watcher stored (its
                      \* position in watchers), 0 for no entry
    watchers,         \* the watchers fs.watch created, each with its processor
    ingests,          \* for each watcher and file, the calls of processNewFile
                      \* made while the watcher was open
    starts,           \* the startWatcher calls: where each is, what it returned
    passes,           \* the processPending passes that are running
    stopCall          \* the stopWatcher call: where it is, what it returned

watchVars == <<activeWatchers, watchers, ingests, starts, passes, stopCall>>

\* createDebouncedProcessor(options, chromaClient): pending in insertion
\* order, processed, and whether the timeout is armed.
NewProcessor == [pending |-> <<>>, processed |-> {}, timer |-> FALSE]

\* add(filePath): pending.set keeps the place of a key it holds already;
\* the timeout is armed anew.
add(processor, file) ==
    [processor EXCEPT
       !.pending = IF \E k \in 1..Len(@) : @[k] = file THEN @ ELSE Append(@, file),
       !.timer = TRUE]

\* getProcessedCount()
getProcessedCount(processor) == Cardinality(processor.processed)

\* clear()
clear(processor) == [pending |-> <<>>, processed |-> {}, timer |-> FALSE]

\* The for loop of processPending up to its next await: files that are in
\* processed are skipped.
RECURSIVE SkipProcessed(_, _)
SkipProcessed(files, done) ==
    IF files # <<>> /\ Head(files) \in done THEN SkipProcessed(Tail(files), done)
    ELSE files

\* getWatcherStatus(watchPath).filesProcessed for a watched path.
StatusCount(path) == getProcessedCount(watchers[activeWatchers[path]].processor)

NoStart == [pc |-> "none", path |-> "", error |-> "", watcher |-> 0]
NoStop == [pc |-> "none", path |-> "", watcher |-> 0, reported |-> 0, filesProcessed |-> 0]
NoPass == [pc |-> "none", watcher |-> 0, files |-> <<>>]

WatchInit ==
    /\ activeWatchers = [path \in WatchPaths |-> 0]
    /\ watchers = <<>>
    /\ ingests = <<>>
    /\ starts = [c \in 1..MaxStarts |-> NoStart]
    /\ passes = [p \in 1..MaxPasses |-> NoPass]
    /\ stopCall = NoStop

\* No watcher module.
WatchIdle ==
    /\ activeWatchers = [path \in WatchPaths |-> 0]
    /\ watchers = <<>>
    /\ ingests = <<>>
    /\ starts = <<>>
    /\ passes = <<>>
    /\ stopCall = NoStop

\* startWatcher(watchPath, ...) up to its first await: the path is checked
\* against the registry.
StartWatcher ==
    \E c \in 1..MaxStarts, path \in WatchPaths :
        /\ starts[c].pc = "none"
        /\ \A d \in 1..(c - 1) : starts[d].pc # "none"
        /\ starts' =
              [starts EXCEPT ![c] =
                 IF activeWatchers[path] # 0
                 THEN [pc |-> "returned", path |-> path,
                       error |-> "Already watching this path", watcher |-> 0]
                 ELSE [pc |-> "stat", path |-> path, error |-> "", watcher |-> 0]]
        /\ UNCHANGED <<activeWatchers, watchers, ingests, passes, stopCall>>

\* stat(watchPath) rejects, or resolves with something that is not a
\* directory.
StartRejected ==
    \E c \in 1..MaxStarts, error \in {"Path is not a directory", "Path does not exist"} :
        /\ starts[c].pc = "stat"
        /\ starts' = [starts EXCEPT ![c].pc = "returned", ![c].error = error]
        /\ UNCHANGED <<activeWatchers, watchers, ingests, passes, stopCall>>

\* stat(watchPath) resolves with a directory: the processor and the
\* watcher are created and stored in the registry; the call goes on to
\* save the state.
StartWatching ==
    \E c \in 1..MaxStarts :
        /\ starts[c].pc = "stat"
        /\ Len(watchers) < MaxWatchers
        /\ watchers' = Append(watchers, [path |-> starts[c].path, open |-> TRUE,
                                         processor |-> NewProcessor])
        /\ ingests' = Append(ingests, [file \in WatchedFiles |-> 0])
        /\ activeWatchers' =
              [activeWatchers EXCEPT ![starts[c].path] = Len(watchers) + 1]
        /\ starts' = [starts EXCEPT ![c].pc = "saving", ![c].watcher = Len(watchers) + 1]
        /\ UNCHANGED <<passes, stopCall>>

\* The state is saved: startWatcher returns success.
StartReturns ==
    \E c \in 1..MaxStarts :
        /\ starts[c].pc = "saving"
        /\ starts' = [starts EXCEPT ![c].pc = "returned"]
        /\ UNCHANGED <<activeWatchers, watchers, ingests, passes, stopCall>>

\* The callback of fs.watch: a rename or change event of an open watcher.
FileEvent ==
    \E w \in 1..Len(watchers), file \in WatchedFiles :
        /\ watchers[w].open
        /\ watchers' = [watchers EXCEPT ![w].processor = add(@, file)]
        /\ UNCHANGED <<activeWatchers, ingests, starts, passes, stopCall>>

\* The timeout fires: processPending takes the pending files and runs up
\* to its first await (access of the first file not yet processed).
TimerFires ==
    \E w \in 1..Len(watchers), p \in 1..MaxPasses :
        /\ watchers[w].processor.timer
        /\ passes[p].pc = "none"
        /\ \A q \in 1..(p - 1) : passes[q].pc # "none"
        /\ watchers' = [watchers EXCEPT ![w].processor.timer = FALSE,
                                        ![w].processor.pending = <<>>]
        /\ passes' =
              [passes EXCEPT ![p] =
                 LET files == SkipProcessed(watchers[w].processor.pending,
                                            watchers[w].processor.processed)
                 IN IF files = <<>> THEN NoPass
                    ELSE [pc |-> "access", watcher |-> w, files |-> files]]
        /\ UNCHANGED <<activeWatchers, ingests, starts, stopCall>>

\* access or stat of the file rejects, or the file is a directory or
\* smaller than 10 bytes: the loop goes on with the next file.
FileNotReady ==
    \E p \in 1..MaxPasses :
        /\ passes[p].pc = "access"
        /\ passes' =
              [passes EXCEPT ![p] =
                 LET files == SkipProcessed(Tail(passes[p].files),
                                   watchers[passes[p].watcher].processor.processed)
                 IN IF files = <<>> THEN NoPass ELSE [@ EXCEPT !.files = files]]
        /\ UNCHANGED <<activeWatchers, watchers, ingests, starts, stopCall>>

\* access and stat resolve for a file of 10 bytes or more:
\* processed.add(file), and processNewFile is called.
FileReady ==
    \E p \in 1..MaxPasses :
        LET w == passes[p].watcher
            file == Head(passes[p].files)
        IN /\ passes[p].pc = "access"
           /\ ingests[w][file] < MaxIngests
           /\ watchers' = [watchers EXCEPT ![w].processor.processed = @ \cup {file}]
           /\ ingests' = IF watchers[w].open
                         THEN [ingests EXCEPT ![w][file] = @ + 1] ELSE ingests
           /\ passes' = [passes EXCEPT ![p].pc = "ingest"]
           /\ UNCHANGED <<activeWatchers, starts, stopCall>>

\* processNewFile resolves: the loop goes on with the next file.
FileIngested ==
    \E p \in 1..MaxPasses :
        /\ passes[p].pc = "ingest"
        /\ passes' =
              [passes EXCEPT ![p] =
                 LET files == SkipProcessed(Tail(passes[p].files),
                                   watchers[passes[p].watcher].processor.processed)
                 IN IF files = <<>> THEN NoPass
                    ELSE [@ EXCEPT !.files = files, !.pc = "access"]]
        /\ UNCHANGED <<activeWatchers, watchers, ingests, starts, stopCall>>

\* stopWatcher(watchPath) for a path without an entry.
StopUnknown ==
    \E path \in WatchPaths :
        /\ stopCall.pc \in {"none", "returned"}
        /\ activeWatchers[path] = 0
        /\ stopCall' = [pc |-> "failed", path |-> path, watcher |-> 0,
                        reported |-> 0, filesProcessed |-> 0]
        /\ UNCHANGED <<activeWatchers, watchers, ingests, starts, passes>>

\* stopWatcher(watchPath) up to its first await: the watcher is closed,
\* its processor cleared and its entry deleted.  reported is what
\* getWatcherStatus(watchPath) gave just before.
StopWatcher ==
    \E path \in WatchPaths :
        /\ stopCall.pc \in {"none", "returned", "failed"}
        /\ activeWatchers[path] # 0
        /\ watchers' = [watchers EXCEPT
                          ![activeWatchers[path]].open = FALSE,
                          ![activeWatchers[path]].processor = clear(@)]
        /\ activeWatchers' = [activeWatchers EXCEPT ![path] = 0]
        /\ stopCall' = [pc |-> "saving", path |-> path,
                        watcher |-> activeWatchers[path],
                        reported |-> StatusCount(path), filesProcessed |-> 0]
        /\ UNCHANGED <<ingests, starts, passes>>

\* The state is saved: stopWatcher returns, with filesProcessed:
\* watcherInfo.processor.getProcessedCount().
StopReturns ==
    /\ stopCall.pc = "saving"
    /\ stopCall' = [stopCall EXCEPT
                      !.pc = "returned",
                      !.filesProcessed =
                          getProcessedCount(watchers[stopCall.watcher].processor)]
    /\ UNCHANGED <<activeWatchers, watchers, ingests, starts, passes>>

\* ------------------------------------------------------ the specifications
\* findDuplicates entered, scanDirectory having returned nFiles paths.
DupInit ==
    /\ nFiles \in 0..MaxFiles
    /\ hashMethod \in HashMethods
    /\ minSize \in FileSizes
    /\ fs = [f \in 1..nFiles |-> Unobserved]
    /\ pc = "sizing"
    /\ idx = 1
    /\ sizeGroups = <<>>
    /\ potentialDuplicates = <<>>
    /\ hashGroups = <<>>
    /\ report = NoReport

\* No findDuplicates run.
DupIdle ==
    /\ nFiles = 0
    /\ hashMethod = "partial"
    /\ minSize = 1
    /\ fs = <<>>
    /\ pc = "idle"
    /\ idx = 1
    /\ sizeGroups = <<>>
    /\ potentialDuplicates = <<>>
    /\ hashGroups = <<>>
    /\ report = NoReport

vars == <<dupVars, hashVars, cmpVars, exifVars, routerVars, batchVars, watchVars>>

\* The variables a findDuplicates run leaves alone, and those a run of the
\* hash functions on their own leaves alone.
notDupVars == <<hashVars, cmpVars, exifVars, routerVars, batchVars, watchVars>>
notHashVars == <<dupVars, cmpVars, exifVars, routerVars, batchVars, watchVars>>
notCmpVars == <<dupVars, exifVars, routerVars, batchVars, watchVars>>
notExifVars == <<dupVars, hashVars, cmpVars, routerVars, batchVars, watchVars>>
notRouterVars == <<dupVars, hashVars, cmpVars, exifVars, batchVars, watchVars>>
notBatchVars == <<dupVars, hashVars, cmpVars, exifVars, routerVars, watchVars>>
notWatchVars == <<dupVars, hashVars, cmpVars, exifVars, routerVars, batchVars>>

\* One run of findDuplicates.
Init == DupInit /\ HashIdle /\ CmpIdle /\ ExifIdle /\ RouterIdle /\ BatchIdle /\ WatchIdle

Next ==
    \/ StatFile /\ UNCHANGED notDupVars
    \/ FilterBySize /\ UNCHANGED notDupVars
    \/ HashFile /\ UNCHANGED notDupVars
    \/ BuildGroups /\ UNCHANGED notDupVars

Spec == Init /\ [][Next]_vars

\* calculatePartialHash on two files of equal length.
InitPartial == PartialInit /\ DupIdle /\ CmpIdle /\ ExifIdle /\ RouterIdle /\ BatchIdle /\ WatchIdle

NextPartial ==
    \/ PartialHashA /\ UNCHANGED notHashVars
    \/ PartialHashB /\ UNCHANGED notHashVars

SpecPartial == InitPartial /\ [][NextPartial]_vars

\* calculateImagePerceptualHash on two image files.
InitPerceptual == PerceptualInit /\ DupIdle /\ CmpIdle /\ ExifIdle /\ RouterIdle /\ BatchIdle /\ WatchIdle

NextPerceptual ==
    \/ PerceptualHashA /\ UNCHANGED notHashVars
    \/ PerceptualHashB /\ UNCHANGED notHashVars

SpecPerceptual == InitPerceptual /\ [][NextPerceptual]_vars

\* compareFiles on two files.
InitCompare == CompareInit /\ DupIdle /\ ExifIdle /\ RouterIdle /\ BatchIdle /\ WatchIdle

NextCompare == CompareFiles /\ UNCHANGED notCmpVars

SpecCompare == InitCompare /\ [][NextCompare]_vars

\* The byte reader on eight bytes.
InitReader == ReaderInit /\ DupIdle /\ HashIdle /\ CmpIdle /\ RouterIdle /\ BatchIdle /\ WatchIdle

NextReader == ReadValues /\ UNCHANGED notExifVars

SpecReader == InitReader /\ [][NextReader]_vars

\* parseIFD on one directory.
InitDirectory == DirectoryInit /\ DupIdle /\ HashIdle /\ CmpIdle /\ RouterIdle /\ BatchIdle /\ WatchIdle

NextDirectory == ParseDirectory /\ UNCHANGED notExifVars

SpecDirectory == InitDirectory /\ [][NextDirectory]_vars

\* findExifInJpeg on a JPEG buffer, and extractExif after it.
InitJpeg == JpegInit /\ DupIdle /\ HashIdle /\ CmpIdle /\ RouterIdle /\ BatchIdle /\ WatchIdle

NextJpeg ==
    \/ ScanIteration /\ UNCHANGED notExifVars
    \/ ScanExhausted /\ UNCHANGED notExifVars
    \/ ExtractFromOrigin /\ UNCHANGED notExifVars

SpecJpeg == InitJpeg /\ [][NextJpeg]_vars

\* The same, run to completion: the caller awaits the synchronous loop, so
\* an iteration that can be taken is taken.
SpecJpegLive == InitJpeg /\ [][NextJpeg]_vars /\ WF_vars(NextJpeg)

\* extractExif on one file.
InitExtract == ExtractInit /\ DupIdle /\ HashIdle /\ CmpIdle /\ RouterIdle /\ BatchIdle /\ WatchIdle

NextExtract == ExtractExif /\ UNCHANGED notExifVars

SpecExtract == InitExtract /\ [][NextExtract]_vars

\* The server answering tool calls.
InitRouter == RouterInit /\ DupIdle /\ HashIdle /\ CmpIdle /\ ExifIdle /\ BatchIdle /\ WatchIdle

NextRouter ==
    \/ Run /\ UNCHANGED notRouterVars
    \/ SearchContext /\ UNCHANGED notRouterVars
    \/ GetEnvironment /\ UNCHANGED notRouterVars
    \/ ListCollections /\ UNCHANGED notRouterVars

SpecRouter == InitRouter /\ [][NextRouter]_vars

\* One call of batchProcessFiles.
InitBatch == BatchInit /\ DupIdle /\ HashIdle /\ CmpIdle /\ ExifIdle /\ RouterIdle /\ WatchIdle

NextBatch ==
    \/ StartBatch /\ UNCHANGED notBatchVars
    \/ SettleFile /\ UNCHANGED notBatchVars
    \/ CollectBatch /\ UNCHANGED notBatchVars
    \/ ReturnBatch /\ UNCHANGED notBatchVars

SpecBatch == InitBatch /\ [][NextBatch]_vars

\* The watcher module: startWatcher and stopWatcher calls, file events,
\* timeouts and the steps of processPending, interleaved at the awaits.
InitWatch ==
    WatchInit /\ DupIdle /\ HashIdle /\ CmpIdle /\ ExifIdle /\ RouterIdle /\ BatchIdle

NextWatch ==
    \/ StartWatcher /\ UNCHANGED notWatchVars
    \/ StartRejected /\ UNCHANGED notWatchVars
    \/ StartWatching /\ UNCHANGED notWatchVars
    \/ StartReturns /\ UNCHANGED notWatchVars
    \/ FileEvent /\ UNCHANGED notWatchVars
    \/ TimerFires /\ UNCHANGED notWatchVars
    \/ FileNotReady /\ UNCHANGED notWatchVars
    \/ FileReady /\ UNCHANGED notWatchVars
    \/ FileIngested /\ UNCHANGED notWatchVars
    \/ StopUnknown /\ UNCHANGED notWatchVars
    \/ StopWatcher /\ UNCHANGED notWatchVars
    \/ StopReturns /\ UNCHANGED notWatchVars

SpecWatch == InitWatch /\ [][NextWatch]_vars

\* ------------------------------------------------- properties of the report
Done == pc = "done"

\* The paths of a group's members.
MembersOf(g) == {g.files[k].path : k \in 1..Len(g.files)}

\* The member sets of the returned groups.
ReturnedGroupSets == {MembersOf(report.groups[k]) : k \in 1..Len(report.groups)}

InSomeGroup(f) == \E members \in ReturnedGroupSets : f \in members

SameGroup(f, g) == \E members \in ReturnedGroupSets : f \in members /\ g \in members

StatOk(f) == fs[f].stat = "ok"

\* f's size is the size of no other scanned file the run could stat.
UniqueSize(f) ==
    /\ StatOk(f)
    /\ \A g \in Files \ {f} : ~(StatOk(g) /\ fs[g].size = fs[f].size)

\* C1: a file whose byte size is shared by no other scanned file is a member
\* of no returned group, whatever the hash method.
C1_UniqueSizeNeverGrouped ==
    Done => \A f \in Files : UniqueSize(f) => ~InSomeGroup(f)

\* A perceptual run that returned a group while a third file, large enough
\* for minSize, had a size of its own.
C1_Witness ==
    /\ Done
    /\ hashMethod = "perceptual"
    /\ report.groups # <<>>
    /\ \E f \in Files : UniqueSize(f) /\ fs[f].size >= minSize

\* f and g were read and hold the same bytes.
Identical(f, g) ==
    /\ fs[f].read = "ok"
    /\ fs[g].read = "ok"
    /\ fs[f].bytes = fs[g].bytes

\* f could be stat'ed, is at least minSize long and did not fail to be read.
Eligible(f) == StatOk(f) /\ fs[f].size >= minSize /\ fs[f].read # "err"

\* The scan found exactly three files, all readable and of one size, of
\* which a and b are identical and c differs from them.
ThreeFilesTwoIdentical(a, b, c) ==
    /\ nFiles = 3
    /\ {a, b, c} = Files
    /\ a # b /\ a # c /\ b # c
    /\ \A f \in Files : Eligible(f) /\ fs[f].read = "ok" /\ fs[f].size = fs[a].size
    /\ Identical(a, b)
    /\ ~Identical(a, c)

\* C2: under 'full', two readable files of size >= minSize share a group
\* exactly when their contents are byte-identical; of three same-size files
\* with exactly two identical, the report has one group, of those two, whose
\* wastedSpace is the size of its one duplicate, and the third is in no group.
C2_FullGroupsAreIdenticalFiles ==
    (Done /\ hashMethod = "full") =>
        /\ \A f, g \in Files :
              (f # g /\ Eligible(f) /\ Eligible(g)) =>
                  (SameGroup(f, g) <=> Identical(f, g))
        /\ \A a, b, c \in Files :
              ThreeFilesTwoIdentical(a, b, c) =>
                  /\ Len(report.groups) = 1
                  /\ report.groups[1].count = 2
                  /\ MembersOf(report.groups[1]) = {a, b}
                  /\ Len(report.groups[1].duplicates) = 1
                  /\ report.groups[1].wastedSpace = report.groups[1].duplicates[1].size
                  /\ ~InSomeGroup(c)

\* A 'full' run over three files of two bytes, two identical and one not.
C2_Witness ==
    /\ Done
    /\ hashMethod = "full"
    /\ \E a, b, c \in Files : ThreeFilesTwoIdentical(a, b, c) /\ fs[a].size = 2
    /\ Len(report.groups) = 1

\* C3: every returned group has count = |files| >= 2, files is the original
\* followed by the duplicates, |duplicates| = count - 1 and the original is
\* not one of the duplicates.
C3_GroupShape ==
    Done => \A k \in 1..Len(report.groups) :
        LET g == report.groups[k] IN
        /\ g.count = Len(g.files)
        /\ g.count >= 2
        /\ g.files = <<g.original>> \o g.duplicates
        /\ Len(g.duplicates) = g.count - 1
        /\ \A d \in 1..Len(g.duplicates) : g.duplicates[d].path # g.original.path

\* A returned group of three or more members.
C3_Witness ==
    Done /\ \E k \in 1..Len(report.groups) : report.groups[k].count >= 3

\* The least modification time among a group's members.
OldestIn(g) ==
    CHOOSE m \in {g.files[k].modified : k \in 1..Len(g.files)} :
        \A k \in 1..Len(g.files) : m <= g.files[k].modified

\* C4: in every returned group the original has the least modification time
\* of the group, and among the members with that modification time it is the
\* one met first in the scanned file list (the least path, paths being
\* positions in that list).
C4_OriginalOldestFirstSeen ==
    Done => \A k \in 1..Len(report.groups) :
        LET g == report.groups[k] IN
        /\ g.original.path \in MembersOf(g)
        /\ g.original.modified = OldestIn(g)
        /\ \A j \in 1..Len(g.files) :
              g.files[j].modified = OldestIn(g) => g.original.path <= g.files[j].path

\* C5: the wastedSpace of every returned group is the sum of the sizes of its
\* duplicates, which is the sum of all member sizes less the original's size.
C5_WastedSpaceIsDuplicateSizes ==
    Done => \A k \in 1..Len(report.groups) :
        LET g == report.groups[k] IN
        /\ g.wastedSpace = SeqSum([d \in 1..Len(g.duplicates) |-> g.duplicates[d].size])
        /\ g.wastedSpace = SeqSum([j \in 1..Len(g.files) |-> g.files[j].size])
                           - g.original.size

\* A returned group with two or more duplicates.
C5_Witness ==
    Done /\ \E k \in 1..Len(report.groups) :
        Len(report.groups[k].duplicates) >= 2 /\ report.groups[k].wastedSpace >= 2

\* C6: the returned groups are ordered by wastedSpace, non-increasing.
C6_GroupsSortedByWastedSpace ==
    Done => \A k \in 1..(Len(report.groups) - 1) :
        report.groups[k].wastedSpace >= report.groups[k + 1].wastedSpace

\* Two groups were returned, the larger waste first, whose hash buckets were
\* filled in the opposite order.
C6_Witness ==
    /\ Done
    /\ Len(report.groups) = 2
    /\ report.groups[1].wastedSpace > report.groups[2].wastedSpace
    /\ MapIndex(hashGroups, report.groups[1].hash)
         > MapIndex(hashGroups, report.groups[2].hash)

\* C7: the statistics of the report agree with its group list.
C7_StatisticsConsistent ==
    Done =>
        /\ report.duplicateGroups = Len(report.groups)
        /\ report.totalDuplicates =
              SeqSum([k \in 1..Len(report.groups) |-> report.groups[k].count - 1])
        /\ report.totalWastedSpace =
              SeqSum([k \in 1..Len(report.groups) |-> report.groups[k].wastedSpace])
        /\ report.totalDuplicates + report.duplicateGroups <= report.potentialDuplicates
        /\ report.potentialDuplicates <= report.scanned

\* Of four scanned files three were potential duplicates and two of those
\* formed the one returned group.
C7_Witness ==
    /\ Done
    /\ report.scanned = 4
    /\ report.potentialDuplicates = 3
    /\ report.duplicateGroups = 1
    /\ report.totalDuplicates = 1
    /\ report.totalWastedSpace > 0

\* f failed in phase 1 (stat) or in phase 2 (hash).
Failed(f) == fs[f].stat = "err" \/ fs[f].read = "err"

Remaining == {f \in Files : ~Failed(f)}

\* The hash phase 2 computed for f (f is in a hash bucket).
Hashed(f) ==
    \E e \in 1..Len(hashGroups) :
        \E k \in 1..Len(hashGroups[e].list) : hashGroups[e].list[k] = f

HashOf(f) ==
    hashGroups[CHOOSE e \in 1..Len(hashGroups) :
        \E k \in 1..Len(hashGroups[e].list) : hashGroups[e].list[k] = f].key

\* The remaining files that pass the size pre-filter among themselves.
RemainingCandidates ==
    {f \in Remaining :
        /\ StatOk(f)
        /\ fs[f].size >= minSize
        /\ \E g \in Remaining \ {f} : StatOk(g) /\ fs[g].size = fs[f].size}

\* The groups the remaining files form by their own sizes and hashes.
GroupsOfRemaining ==
    {c \in {{g \in RemainingCandidates : Hashed(g) /\ HashOf(g) = HashOf(f)} :
                f \in {h \in RemainingCandidates : Hashed(h)}} :
        Cardinality(c) >= 2}

\* Some step of the run can be taken: a loop iteration, with either outcome
\* of its stat or hash, or the step that ends the loop.
CanStep ==
    \/ pc = "sizing" /\ (idx <= nFiles \/ idx > nFiles)
    \/ pc = "hashing"
          /\ (idx <= Len(potentialDuplicates) \/ idx > Len(potentialDuplicates))

\* C8: whichever files fail in stat or in hashing, the run goes on to return
\* a report (no step raises), no failing file is in a group, and the groups
\* are those the remaining files form by their own sizes and hashes.
C8_FailuresOnlyDropTheFailingFiles ==
    /\ Done \/ CanStep
    /\ Done =>
          /\ \A f \in Files : Failed(f) => ~InSomeGroup(f)
          /\ ReturnedGroupSets = GroupsOfRemaining

\* ------------------------------------------ properties of the hash functions
Hashed2 == hpc = "hashed"

\* The 0-based offsets of a file of len bytes that lie in the first chunk, in
\* the last chunk when len > 2c, or in the chunk starting at
\* floor(len/2) - floor(c/2) when len > 3c.
SampledOffsets(len, c) ==
    LET mid == (len \div 2) - (c \div 2) IN
    {i \in 0..(len - 1) :
        \/ i < Min(c, len)
        \/ len > 2 * c /\ i >= len - c
        \/ len > 3 * c /\ i >= mid /\ i < mid + c}

\* The offsets at which A and B differ.
DifferingOffsets == {i \in 0..(Len(bufA) - 1) : bufA[i + 1] # bufB[i + 1]}

\* C9: for two files of equal length and a chunk size c, calculatePartialHash
\* returns equal hashes exactly when the files agree on every sampled offset;
\* so a single changed byte changes the hash exactly when it is sampled.
C9_PartialHashSamplesThreeChunks ==
    Hashed2 =>
        /\ ~outA.threw /\ ~outB.threw
        /\ (outA.value = outB.value)
              <=> (DifferingOffsets \cap SampledOffsets(Len(bufA), chunkSize) = {})
        /\ \A p \in 0..(Len(bufA) - 1) :
              DifferingOffsets = {p} =>
                  ((outA.value # outB.value) <=> p \in SampledOffsets(Len(bufA), chunkSize))

\* Two files longer than three chunks of two bytes that differ in one byte
\* outside every sampled chunk, and hash alike.
C9_Witness ==
    /\ Hashed2
    /\ chunkSize = 2
    /\ Len(bufA) > 3 * chunkSize
    /\ Cardinality(DifferingOffsets) = 1
    /\ outA.value = outB.value

StartsWith(s, t) == Len(s) >= Len(t) /\ SubSeq(s, 1, Len(t)) = t

StrategyTags == {"pjpg_", "ppng_", "pgen_", "perr_"}

TagsOf(hash) == {t \in StrategyTags : StartsWith(hash, t)}

\* The buffer holds the bytes FF DA somewhere.
HasStartOfScan(buffer) ==
    \E k \in 1..(Len(buffer) - 1) : buffer[k] = 255 /\ buffer[k + 1] = 218

\* What C10 says of one returned perceptual hash.
TagMatchesBranch(ext, buffer, reads, hash) ==
    /\ Cardinality(TagsOf(hash)) = 1
    /\ StartsWith(hash, "pjpg_") => (ext \in {".jpg", ".jpeg"} /\ HasStartOfScan(buffer))
    /\ StartsWith(hash, "ppng_") => ext = ".png"
    /\ StartsWith(hash, "perr_") => (~reads[1] \/ ~reads[2])
    /\ (/\ reads[1] /\ reads[2]
        /\ ~(ext \in {".jpg", ".jpeg"} /\ HasStartOfScan(buffer))
        /\ ext # ".png") => StartsWith(hash, "pgen_")

\* C10: a hash calculateImagePerceptualHash returns starts with exactly one
\* of pjpg_, ppng_, pgen_, perr_: pjpg_ only for a .jpg/.jpeg file holding
\* FF DA, ppng_ only for a .png file, perr_ only after a failed read, pgen_
\* otherwise; so hashes of different branches differ, and none equals the
\* unprefixed partial hash of a file.
C10_PerceptualTagsSeparateBranches ==
    Hashed2 =>
        /\ ~outA.threw => TagMatchesBranch(extA, bufA, readsA, outA.value)
        /\ ~outB.threw => TagMatchesBranch(extB, bufB, readsB, outB.value)
        /\ (~outA.threw /\ ~outB.threw /\ TagsOf(outA.value) # TagsOf(outB.value))
              => outA.value # outB.value
        /\ ~outA.threw =>
              /\ outA.value # PartialHashOf(bufA, DefaultChunkSize)
              /\ outA.value # PartialHashOf(bufB, DefaultChunkSize)
        /\ ~outB.threw =>
              /\ outB.value # PartialHashOf(bufA, DefaultChunkSize)
              /\ outB.value # PartialHashOf(bufB, DefaultChunkSize)

\* A returned a pjpg_ hash and B, of the same content under a .png path, a
\* ppng_ hash of the same digest.
C10_Witness ==
    /\ Hashed2
    /\ ~outA.threw /\ ~outB.threw
    /\ bufA = bufB
    /\ StartsWith(outA.value, "pjpg_")
    /\ StartsWith(outB.value, "ppng_")
    /\ SubSeq(outA.value, 6, Len(outA.value)) = SubSeq(outB.value, 6, Len(outB.value))

\* ------------------------------------------------- properties of compareFiles
Compared == hpc = "compared" /\ ~comparison.threw

\* C11: whenever compareFiles returns a result, exactMatch is true exactly
\* when the two files have the same size and the same bytes, exactMatch
\* implies partialMatch, and partialMatch implies sameSize.
C11_ExactMatchIffIdentical ==
    Compared =>
        /\ comparison.exactMatch <=> (Len(bufA) = Len(bufB) /\ bufA = bufB)
        /\ comparison.exactMatch => comparison.partialMatch
        /\ comparison.partialMatch => comparison.sameSize

\* Two files that agree on every sampled chunk and differ elsewhere: a
\* partial match that is not an exact one.
C11_Witness ==
    /\ Compared
    /\ bufA # bufB
    /\ comparison.sameSize /\ comparison.partialMatch /\ ~comparison.exactMatch

\* ----------------------------------------------- properties of the byte reader
HasRead == epc = "read"

\* The bytes of the value at offset, most significant first.
BytesMSBFirst(offset, width) ==
    [k \in 1..width |->
        IF exLittle THEN exBuffer[offset + width - k + 1] ELSE exBuffer[offset + k]]

\* C19: readUShort returns the unsigned 16-bit value of the two bytes and
\* readULong the unsigned 32-bit value of the four bytes, a value of
\* 0..2^32-1 whose upper half is the two most significant bytes and whose
\* lower half is the two least significant ones, in both byte orders.
C19_ReadersReturnUnsignedValues ==
    HasRead =>
        LET s == BytesMSBFirst(0, 2)
            l == BytesMSBFirst(0, 4)
        IN /\ exOut.ushort = s[1] * 256 + s[2]
           /\ exOut.ulong >= 0
           /\ exOut.ulong \div 65536 = l[1] * 256 + l[2]
           /\ exOut.ulong % 65536 = l[3] * 256 + l[4]

\* The stored denominator, the long at offset 4, is 0.
ZeroDenominator == \A k \in 5..RationalLen : exBuffer[k] = 0

IsFinite(v) == v.t = "number" /\ v.den # 0

\* C20: readRational and readSRational return the number 0 whenever the
\* stored denominator is 0, and never return NaN or an infinity.
C20_ZeroDenominatorGivesZero ==
    HasRead =>
        /\ IsFinite(exOut.rational) /\ IsFinite(exOut.srational)
        /\ ZeroDenominator => exOut.rational = Zero /\ exOut.srational = Zero

\* A denominator of 0 under a numerator that is not 0, in each byte order.
C20_Witness ==
    /\ HasRead
    /\ ZeroDenominator
    /\ readULong(exBuffer, 0, exLittle) # 0
    /\ exOut.rational = Zero /\ exOut.srational = Zero

\* ------------------------------------------------------ properties of parseIFD
Parsed == epc = "parsed"

\* The entries of the directory parseIFD was given, as it reads them.
EntriesRead ==
    LET numEntries == readUShort(exBuffer, exOrigin + Ifd0Offset, exLittle)
    IN {Entry(exBuffer, exOrigin, Ifd0Offset, exLittle, i) : i \in 0..(numEntries - 1)}

\* The value bytes of the entry, in its value field or where that points
\* to, extend beyond the end of the buffer.
BeyondBuffer(e) ==
    \/ e.dataOffset < 0
    \/ e.dataOffset + TypeSize(e.type) * e.count > Len(exBuffer)

KnownTypes == {1, 2, 3, 4, 5, 7, 9, 10}

\* C15: every key of the tag map parseIFD returns comes from an entry whose
\* value bytes lie inside the buffer (an entry whose value bytes extend
\* beyond the end contributes none, whatever its type code), and every
\* entry of a known type whose value bytes lie inside has its key.
C15_EntriesBeyondBufferAreSkipped ==
    Parsed =>
        /\ \A key \in DOMAIN exTags :
              \E e \in EntriesRead : TagName(e.tag) = key /\ ~BeyondBuffer(e)
        /\ \A e \in EntriesRead :
              (e.type \in KnownTypes /\ ~BeyondBuffer(e)) => TagName(e.tag) \in DOMAIN exTags

\* ------------------------------------------------ properties of findExifInJpeg
\* The bytes at offset p are an APP1 marker, a length and the Exif signature.
ExifSegmentAt(p) ==
    /\ p >= 0 /\ p + 1 < Len(exBuffer)
    /\ exBuffer[p + 1] = 255 /\ exBuffer[p + 2] = 225
    /\ HasExifSignature(exBuffer, p)

\* The scan is at offset p, having met no Start-Of-Scan marker before.
ScanReached(p) == epc = "scanning" /\ exOffset = p /\ p < Len(exBuffer) - 4

NoExifSegment == \A p \in 0..(Len(exBuffer) - 1) : ~ExifSegmentAt(p)

Extracted == epc = "extracted"

\* extractExif got as far as decoding the directories of the file.
Decoded == Extracted /\ Decodes(exExt, exBuffer, exReadable)

\* The result is a full record.
HasExif ==
    /\ Extracted
    /\ "supported" \in DOMAIN exOut
    /\ exOut.supported
    /\ exOut.hasExif

\* The result is one of the three shapes extractExif documents.
Structured ==
    /\ "supported" \in DOMAIN exOut
    /\ \/ ~exOut.supported /\ "reason" \in DOMAIN exOut
       \/ /\ exOut.supported /\ ~exOut.hasExif
          /\ ("reason" \in DOMAIN exOut \/ "error" \in DOMAIN exOut)
       \/ exOut.supported /\ exOut.hasExif /\ SubRecords \subseteq DOMAIN exOut

\* The JPEG magic bytes are wrong.
WrongJpegMagic ==
    /\ exExt \in JpegExts
    /\ Len(exBuffer) < 2 \/ exBuffer[1] # 255 \/ exBuffer[2] # 216

\* C12: extractExif resolves with a structured result for every file, and
\* never rejects: an unsupported extension and wrong JPEG magic bytes give
\* supported:false, an unreadable file, a file without EXIF data, a wrong
\* TIFF header and an error while decoding give hasExif:false.
C12_ExtractExifAlwaysResolves ==
    Extracted =>
        /\ exOut # Thrown
        /\ Structured
        /\ exExt \notin ExifExts => ~exOut.supported
        /\ (exExt \in ExifExts /\ ~exReadable) => (exOut.supported /\ ~exOut.hasExif)
        /\ (exExt \in ExifExts /\ exReadable /\ WrongJpegMagic) => ~exOut.supported
        /\ (exExt \in ExifExts /\ exReadable /\ exOrigin >= 0
            /\ ~HeaderAccepted(exBuffer, exOrigin)) => (exOut.supported /\ ~exOut.hasExif)
        /\ ~HasExif => (~exOut.supported \/ ~exOut.hasExif)

\* C12 witness: a readable file with a valid header whose aperture is an
\* array of two rationals; toFixed throws and the catch block answers.
C12_Witness ==
    /\ Extracted /\ exReadable /\ exExt \in ExifExts
    /\ Decodes(exExt, exBuffer, exReadable)
    /\ Get(exTags, "fNumber").t = "array"
    /\ exOut = ExtractFailed

\* The two bytes at the TIFF origin are 'II' or 'MM', and the 16-bit value
\* after them, read in the byte order they name, is 42.
ValidHeader ==
    /\ exOrigin >= 0
    /\ Len(exBuffer) >= exOrigin + 2
    /\ SubSeq(exBuffer, exOrigin + 1, exOrigin + 2) \in {MarkerII, MarkerMM}
    /\ readUShort(exBuffer, exOrigin + 2,
                  SubSeq(exBuffer, exOrigin + 1, exOrigin + 2) = MarkerII) = TiffMagic

\* C13: when the bytes at the TIFF origin are not 'II' or 'MM' followed by
\* 42 in that byte order, extractExif returns the invalid-header result and
\* decodes no tags.
C13_OnlyValidHeadersAreDecoded ==
    (Extracted /\ exExt \in ExifExts /\ exReadable /\ exOrigin >= 0 /\ ~ValidHeader)
        => (exOut = NoExif("Invalid TIFF header") /\ exTags = NoTags)

\* The offset of IFD0, its entry count, and the values of its entries with
\* the given tag, read from the bytes of the file.
Ifd0At == readULong(exBuffer, exOrigin + 4, LittleEndianAt(exBuffer, exOrigin))

Ifd0Count ==
    readUShort(exBuffer, exOrigin + Ifd0At, LittleEndianAt(exBuffer, exOrigin))

Ifd0Indices ==
    {i \in 0..(Len(exBuffer) \div 12) : i < Ifd0Count}

PointersTo(tag) ==
    {readULong(exBuffer, exOrigin + Ifd0At + 2 + (i * 12) + 8,
               LittleEndianAt(exBuffer, exOrigin)) :
        i \in {j \in Ifd0Indices :
                 readUShort(exBuffer, exOrigin + Ifd0At + 2 + (j * 12),
                            LittleEndianAt(exBuffer, exOrigin)) = tag}}

\* The tags of the sub-directory that IFD0 points to with the given tag;
\* no tags when IFD0 has no such pointer.
SubDirectory(tag) ==
    IF PointersTo(tag) = {} THEN NoTags
    ELSE parseIFD(exBuffer, exOrigin, CHOOSE p \in PointersTo(tag) : TRUE,
                  LittleEndianAt(exBuffer, exOrigin))

BothPointers == PointersTo(ExifPointerTag) # {} /\ PointersTo(GpsPointerTag) # {}

\* C16: when IFD0 holds both the EXIF and the GPS pointer, the merged tag
\* map holds every tag of the EXIF sub-directory and every tag of the GPS
\* sub-directory, in whichever order the two pointers occur.
C16_BothSubDirectoriesAreMerged ==
    (Decoded /\ BothPointers) =>
        /\ DOMAIN SubDirectory(ExifPointerTag) \subseteq DOMAIN exTags
        /\ DOMAIN SubDirectory(GpsPointerTag) \subseteq DOMAIN exTags

\* The names EXIF_TAGS gives to the tag ids 0x0000 to 0x001D.
GpsNames == {EXIF_TAGS[id] : id \in (0..29) \cap DOMAIN EXIF_TAGS}

\* C17: every GPS field of the merged map was decoded from the GPS
\* sub-directory and has the value it has there, and the gps sub-record of
\* a full record is the one built from the GPS sub-directory, or null.
C17_GpsFieldsComeFromGpsDirectory ==
    Decoded =>
        /\ \A name \in GpsNames \cap DOMAIN exTags :
              /\ name \in DOMAIN SubDirectory(GpsPointerTag)
              /\ exTags[name] = SubDirectory(GpsPointerTag)[name]
        /\ HasExif =>
              exOut.gps \in {Null, CleanUp(gps(SubDirectory(GpsPointerTag)))}

\* The merged map holds make and model, both not empty, and nothing else.
OnlyMakeAndModel ==
    /\ DOMAIN exTags = {"make", "model"}
    /\ Truthy(exTags["make"]) /\ Truthy(exTags["model"])

\* C18: in a full record every sub-record is null or has a field that is
\* not null; from a map of make and model alone, camera has make and model
\* and no other field, and the other five sub-records are null.
C18_EmptySubRecordsAreNull ==
    HasExif =>
        /\ \A sub \in SubRecords :
              exOut[sub] = Null \/ \E f \in DOMAIN exOut[sub] : exOut[sub][f] # Null
        /\ OnlyMakeAndModel =>
              /\ exOut.camera = [make |-> exTags["make"], model |-> exTags["model"],
                                 software |-> Null, artist |-> Null,
                                 copyright |-> Null, bodySerialNumber |-> Null]
              /\ \A sub \in SubRecords \ {"camera"} : exOut[sub] = Null

\* C18 witness: a file whose only tags are make and model gave a record
\* with a camera and without a lens.
C18_Witness ==
    /\ HasExif /\ OnlyMakeAndModel
    /\ exOut.camera # Null
    /\ exOut.lens = Null


\* ------------------------------------------ more properties of findExifInJpeg
\* The offsets at which marker segments begin: reached from offset 2 by
\* stepping over SOI and EOI by two bytes, over every other segment by its
\* declared length, and over a byte that is not 0xFF by one; the walk ends
\* at a Start-Of-Scan marker.
RECURSIVE SegmentStartsFrom(_, _)
SegmentStartsFrom(buffer, p) ==
    IF p + 1 >= Len(buffer) THEN {}
    ELSE IF buffer[p + 1] # 255 THEN SegmentStartsFrom(buffer, p + 1)
    ELSE IF buffer[p + 2] \in {216, 217} THEN {p} \cup SegmentStartsFrom(buffer, p + 2)
    ELSE IF buffer[p + 2] = 218 THEN {p}
    ELSE {p} \cup SegmentStartsFrom(buffer, p + 2 + DeclaredLength(buffer, p))

Scanned == epc \in {"scanned", "extracted"}

\* C22: an origin returned by findExifInJpeg is 10 bytes past an FF E1
\* marker that begins a marker segment; an FF E1 .. .. 'Exif' 00 00 inside
\* the payload of another segment is never returned.
C22_OriginIsAtSegmentStart ==
    (Scanned /\ exOrigin >= 0) =>
        /\ ExifSegmentAt(exOrigin - 10)
        /\ (exOrigin - 10) \in SegmentStartsFrom(exBuffer, 2)

\* A Start-Of-Scan marker is at offset p.
StartOfScanAt(p) ==
    /\ p >= 0 /\ p + 1 < Len(exBuffer)
    /\ exBuffer[p + 1] = 255 /\ exBuffer[p + 2] = 218

\* C23: when the scan reaches a Start-Of-Scan marker, findExifInJpeg
\* returns not-found at once, and what it returned is never changed: no
\* origin behind that marker is returned.
C23_ScanStopsAtStartOfScan ==
    /\ [][\A p \in 0..Len(exBuffer) :
            (ScanReached(p) /\ StartOfScanAt(p))
                => (epc' = "scanned" /\ exOrigin' = -1)]_vars
    /\ [][Scanned => exOrigin' = exOrigin]_vars

\* C23 witness: the scan stopped at a Start-Of-Scan marker and returned
\* not-found although an APP1 segment with the signature follows it.
C23_Witness ==
    /\ epc = "scanned" /\ exOrigin = -1
    /\ StartOfScanAt(exOffset)
    /\ \E q \in (exOffset + 1)..Len(exBuffer) : ExifSegmentAt(q)

\* C24: every iteration of the loop returns, breaks or strictly increases
\* the offset, and the scan of every buffer comes to an end.
C24_ScanTerminates ==
    /\ [][epc = "scanning" => (epc' = "scanned" \/ exOffset' > exOffset)]_vars
    /\ <>(epc # "scanning")

\* C24 witness: the scan came to an end on a buffer that holds a segment of
\* declared length 0 and a segment whose declared length leads beyond the
\* buffer.
C24_Witness ==
    /\ Scanned
    /\ exOffset > Len(exBuffer)
    /\ \E p \in 2..(Len(exBuffer) - 4) :
          /\ exBuffer[p + 1] = 255 /\ exBuffer[p + 2] = 224
          /\ DeclaredLength(exBuffer, p) = 0

\* ------------------------------------------- more properties of the reader
\* The two's-complement value of four bytes, most significant first: the
\* raw value r when r < 2^31, and r - 2^32 otherwise.
TwosComplement(l) ==
    LET low == (l[1] % 128) * 16777216 + l[2] * 65536 + l[3] * 256 + l[4]
    IN IF l[1] >= 128 THEN (low - 2147483647) - 1 ELSE low

\* C25: an SLONG decodes to the two's-complement value of its four bytes,
\* and an SRATIONAL to the quotient of the two's-complement values of its
\* numerator and its denominator (0 for a denominator of 0), in both byte
\* orders.
C25_SignedValuesAreTwosComplement ==
    HasRead =>
        /\ exOut.slong = Number(TwosComplement(BytesMSBFirst(0, 4)))
        /\ exOut.srational = IF TwosComplement(BytesMSBFirst(4, 4)) = 0 THEN Zero
                             ELSE Quotient(TwosComplement(BytesMSBFirst(0, 4)),
                                           TwosComplement(BytesMSBFirst(4, 4)))

\* C25 witness: the numerator has its top bit set and decoded as a negative
\* number, under a positive denominator.
C25_Witness ==
    /\ HasRead
    /\ BytesMSBFirst(0, 4)[1] >= 128
    /\ exOut.slong.num < 0
    /\ exOut.srational.num < 0 /\ exOut.srational.den > 1

\* --------------------------------------------- more properties of the groups
\* C27: all members of a returned group have the same byte size, so that
\* the group's wastedSpace is (count - 1) times the size of its original.
C27_GroupMembersHaveOneSize ==
    Done => \A k \in 1..Len(report.groups) :
        LET g == report.groups[k] IN
        /\ \A j \in 1..Len(g.files) : g.files[j].size = g.original.size
        /\ g.wastedSpace = (g.count - 1) * g.original.size


\* ------------------------------------------------- properties of the router
\* search_context has been called.
Searched == collection # NullRef

\* The record of the current environment supplies a remote URL.
RemoteSupplied ==
    /\ stateStore.readable
    /\ stateStore.environment # NullRef
    /\ stateStore.remote # NullRef

\* The collection asked for exists on the local server.
ExistsLocally == collection \in listing.names

\* C21: a search_context request goes to the remote client, with route
\* 'remote', exactly when routing is enabled, the current environment's
\* record supplies a remote URL, and the collection neither exists on the
\* local server nor is in the local-only list; otherwise it goes to the
\* local client.
C21_RemoteWhenNotLocal ==
    Searched =>
        IF /\ this.routerEnabled /\ RemoteSupplied
           /\ ~ExistsLocally /\ collection \notin LocalOnlyCollections
        THEN route = "remote" /\ client = "remote"
        ELSE route = "local" /\ client = "local"


\* ------------------------------------------ properties of batchProcessFiles
BatchReturned == bpc = "returned"

\* How many entries of results, and of errors, are of the file.
EntriesOf(file) ==
    Cardinality({k \in 1..Len(returned.results) : returned.results[k] = file})
    + Cardinality({k \in 1..Len(returned.errors) : returned.errors[k].file = file})

\* C26: batchProcessFiles accounts for every file exactly once: each file
\* has exactly one entry in results or in errors, stats.processed +
\* stats.failed = stats.total = files.length, and onProgress was called
\* once per file, with processed = 1, 2, ..., total in that order.
C26_EveryFileAccountedOnce ==
    BatchReturned =>
        /\ \A file \in 1..Len(batchFiles) : EntriesOf(file) = 1
        /\ returned.stats.total = Len(batchFiles)
        /\ returned.stats.processed + returned.stats.failed = returned.stats.total
        /\ Len(progress) = Len(batchFiles)
        /\ \A k \in 1..Len(progress) :
              progress[k].processed = k /\ progress[k].total = Len(batchFiles)

\* C26 witness: four files in batches of three, the last batch of one
\* file, of which some were processed and some failed.
C26_Witness ==
    /\ BatchReturned
    /\ Len(batchFiles) = 4 /\ concurrency = 3
    /\ returned.stats.processed >= 1 /\ returned.stats.failed >= 1
    /\ Len(progress) = 4


\* ------------------------------------------------ properties of the watcher
\* The watchers of the path that are open.
OpenWatchers(path) ==
    {w \in 1..Len(watchers) : watchers[w].open /\ watchers[w].path = path}

\* C28: at most one open watcher exists per path, every open watcher is the
\* one the registry holds for its path, and a startWatcher call that
\* returned 'Already watching this path' created no watcher.
C28_OneWatcherPerPath ==
    /\ \A path \in WatchPaths :
          /\ Cardinality(OpenWatchers(path)) <= 1
          /\ \A w \in OpenWatchers(path) : activeWatchers[path] = w
    /\ \A c \in DOMAIN starts :
          starts[c].error = "Already watching this path" => starts[c].watcher = 0

\* C29: while a watcher is open, processNewFile is called at most once for
\* any file.
C29_FileIngestedOnce ==
    \A w \in 1..Len(ingests) : \A file \in WatchedFiles : ingests[w][file] <= 1

\* C30: the filesProcessed a successful stopWatcher returns is the
\* filesProcessed getWatcherStatus reported for the path just before the
\* stop.
C30_StopReportsProcessedCount ==
    stopCall.pc = "returned" => stopCall.filesProcessed = stopCall.reported

====
